---- MODULE Spec2Model ----
(***************************************************************************)
(* A model of parts of flo_draw: the software renderer's buffer stack,     *)
(* line-stroke edges, edge plan, pixel filters and sprite drawing, and the *)
(* canvas renderer's command loop.  Each subsystem has its own variables,  *)
(* its own actions and its own specification; a specification leaves the   *)
(* variables of the other subsystems at their initial values.              *)
(***************************************************************************)
EXTENDS Integers, Sequences, FiniteSets, TLC

VARIABLES
    \* BufferStack (render_software/src/scanplan/buffer_stack.rs)
    bs_first,       \* first: the pixels of the borrowed base buffer
    bs_stack,       \* stack: the pushed buffers, bottom first
    bs_ready,       \* ready_stack: the popped buffers waiting for re-use
    bs_ranges,      \* history: the range each entry of bs_stack was pushed with
    bs_base0,       \* history: the base buffer as it was before the first push
    bs_pushed       \* history: the indices pushed since the stack was last empty

VARIABLES
    \* CanvasRenderer (render_canvas/src/canvas_renderer.rs)
    cr_layers,          \* core.layers: records of render_order, fill_color, line_width
    cr_current_layer,   \* current_layer: a 0-based index into core.layers
    cr_path_builder,    \* path_builder: <<>> for None, <<ops>> for Some(builder)
    cr_current_path,    \* current_path: <<>> for None, <<path>> for Some(path)
    cr_jobs,            \* the jobs published to job_publisher, in order
    cr_pc,              \* "idle", "cmd", "layer_loop" or "panicked"
    cr_layer_id,        \* the layer id of the Layer command being processed
    cr_cmd              \* the command whose handler ran last

VARIABLES
    \* CanvasDrawing::draw (render_software/src/draw/canvas_drawing.rs)
    cd_drawing,     \* the drawing instructions handed to draw
    cd_pos,         \* the number of instructions taken from the iterator
    cd_pc           \* "running", "returned" or "aborted"

VARIABLES
    \* Sprites of a CanvasDrawing (render_software/src/draw/sprite.rs)
    sp_namespace,           \* current_namespace
    sp_sprites,             \* sprites: (namespace, sprite id) -> layer handle
    sp_next_layer_handle,   \* next_layer_handle
    sp_layers,              \* layers: layer handle -> [z_index, shapes, used_data]
    sp_current_layer,       \* current_layer
    sp_prepared,            \* prepared_layers: layer handle -> the prepared edges
    sp_program_data,        \* program_data_cache: the program of every data id
    sp_pc,                  \* "ok" or "panicked"
    sp_cmd                  \* the sprite drawing call that ran last, if it was one

VARIABLES
    \* A stroke edge that is asked for its intercepts (edges/line_stroke_edge.rs)
    ls_edge,            \* the edge
    ls_y_positions,     \* y_positions of the last call of intercepts
    ls_output,          \* the caller's output buffer
    ls_cmd              \* the method that ran last

VARIABLES
    \* EdgePlan (edgeplan/edge_plan.rs)
    ep_edges,           \* edges: a list of EdgeData [edge, y_bounds]
    ep_edge_space,      \* edge_space: a list of [range, data]
    ep_max_prepared,    \* max_prepared
    ep_prepare_calls,   \* how often prepare_to_render was called on each edge
    ep_prepare_run,     \* the calls of prepare_to_render since the last add_edge (up to 2)
    ep_y_positions,     \* y_positions of the last call of intercepts_on_scanlines
    ep_stale,           \* what the output buckets held before that call
    ep_output,          \* the output buckets after that call
    ep_cmd              \* the method that ran last

VARIABLES
    \* A call of PixelFilter::filter_line (filters/)
    fl_filter,          \* the filter
    fl_y_pos,           \* y_pos
    fl_input_lines,     \* input_lines
    fl_output_line,     \* output_line
    fl_pc               \* "ready" before the call, "done" after it

bs_vars == <<bs_first, bs_stack, bs_ready, bs_ranges, bs_base0, bs_pushed>>

cr_vars == <<cr_layers, cr_current_layer, cr_path_builder, cr_current_path,
             cr_jobs, cr_pc, cr_layer_id, cr_cmd>>

cd_vars == <<cd_drawing, cd_pos, cd_pc>>

sp_vars == <<sp_namespace, sp_sprites, sp_next_layer_handle, sp_layers,
             sp_current_layer, sp_prepared, sp_program_data, sp_pc, sp_cmd>>

ls_vars == <<ls_edge, ls_y_positions, ls_output, ls_cmd>>

ep_vars == <<ep_edges, ep_edge_space, ep_max_prepared, ep_prepare_calls, ep_prepare_run,
             ep_y_positions, ep_stale, ep_output, ep_cmd>>

fl_vars == <<fl_filter, fl_y_pos, fl_input_lines, fl_output_line, fl_pc>>

\* U8FrameRenderer::render (render/u8_frame_renderer.rs)
VARIABLES
    fr_width,        \* self.width
    fr_height,       \* self.height
    fr_dest,         \* dest: the caller's u8 pixels, one entry per pixel
    fr_dest0,        \* history: dest as it was when render() was called
    fr_y_idx,        \* y_idx
    fr_buffer,       \* buffer_chunks: LINES_AT_ONCE scanlines of fr_width pixels
    fr_calls,        \* history: the y_positions of every call of the region renderer
    fr_handed,       \* history: buffer_chunks as handed to the latest call
    fr_rendered,     \* history: the scanline the region renderer left for each line
    fr_pc            \* "start", "loop", "returned" or "aborted"

fr_vars == <<fr_width, fr_height, fr_dest, fr_dest0, fr_y_idx, fr_buffer, fr_calls,
             fr_handed, fr_rendered, fr_pc>>

\* PixelProgramCache and PixelProgramDataCache (pixel_program_cache.rs)
VARIABLES
    pp_next_program_id,  \* PixelProgramCache::next_program_id
    pp_stored,           \* the StoredPixelPrograms returned by add_program
    pp_program_data,     \* PixelProgramDataCache::program_data
    pp_scanline_data,    \* PixelProgramDataCache::scanline_data
    pp_store_log,        \* history: arguments and result of every store_program_data
    pp_create_log,       \* history: arguments and result of every create_scanline_data
    pp_step_calls,       \* history: every call of a program's create_scanline_data
    pp_run,              \* history: arguments of the latest run_program
    pp_drawn,            \* history: the draw_pixels call of the latest run_program
    pp_pc                \* "ready", or "aborted" after an index out of bounds

pp_vars == <<pp_next_program_id, pp_stored, pp_program_data, pp_scanline_data,
             pp_store_log, pp_create_log, pp_step_calls, pp_run, pp_drawn, pp_pc>>

\* EdgePlan::prepare_to_render with the multithreading feature (edge_plan.rs)
VARIABLES
    mp_edges,            \* self.edges
    mp_edge_space,       \* self.edge_space
    mp_max_prepared,     \* self.max_prepared
    mp_task,             \* where the for_each closure of every edge is
    mp_edges0,           \* history: self.edges when prepare_to_render was called
    mp_edge_space0,      \* history: self.edge_space at that time
    mp_max_prepared0,    \* history: self.max_prepared at that time
    mp_pc                \* "ready", "forked" or "returned"

mp_vars == <<mp_edges, mp_edge_space, mp_max_prepared, mp_task, mp_edges0,
             mp_edge_space0, mp_max_prepared0, mp_pc>>

VARIABLES
    \* CombinedFilter::filter_line with two or more filters, every buffer by its
    \* shape: a list of lines is the list of the lengths of the lines
    cf_filters,         \* self.filters
    cf_y_pos,           \* y_pos
    cf_input_lines,     \* input_lines
    cf_output_line,     \* the length of output_line
    cf_width,           \* width
    cf_height,          \* height
    cf_output,          \* output
    cf_next_output,     \* next_output
    cf_next_input,      \* next_input
    cf_done,            \* how many filters have run
    cf_calls,           \* the filter_line calls made on the filters, in order
    cf_panicked,        \* an index or a subtraction was out of range
    cf_pc               \* "ready", "middle", "last", "done"

cf_vars == <<cf_filters, cf_y_pos, cf_input_lines, cf_output_line, cf_width, cf_height, cf_output,
             cf_next_output, cf_next_input, cf_done, cf_calls, cf_panicked, cf_pc>>

VARIABLES
    \* flo_draw_scene_context called from several threads (draw_scene/scene.rs)
    sc_context,         \* DRAW_SCENE_CONTEXT: no context or the context of a scene
    sc_mutex,           \* the thread that holds the lock of DRAW_SCENE_CONTEXT, 0 for none
    sc_scenes,          \* how many scenes Scene::default() has created
    sc_sent,            \* the scenes whose run task was sent to the glutin thread
    sc_new_context,     \* new_context of each thread, 0 when it has none
    sc_returned,        \* the contexts that the calls of each thread returned
    sc_pc               \* where each thread is in flo_draw_scene_context

sc_vars == <<sc_context, sc_mutex, sc_scenes, sc_sent, sc_new_context, sc_returned, sc_pc>>

VARIABLES
    \* FilteredScanlineProgram::draw_pixels called by render threads on one
    \* FilteredScanlineData (pixel_programs/filtered_scanline.rs)
    fs_transforms,      \* the x-transforms that the calls are made with
    fs_filter,          \* data.filter
    fs_scanlines,       \* data.scanlines: the plan cached for a pixel y position
    fs_readers,         \* the threads that hold a read guard of data.scanlines
    fs_writer,          \* the thread that holds the write guard, 0 for none
    fs_x_transform,     \* x_transform of the call of each thread
    fs_y_pos,           \* y_pos of the call of each thread
    fs_y_offset,        \* y_offset of the scanline that the thread is fetching
    fs_new_scanline,    \* the plan that the thread has planned
    fs_render_scanlines, \* the scanlines that the call has fetched: pixel y position and plan
    fs_requested,       \* the pixel y positions that were looked up
    fs_inserted,        \* how many plans were inserted
    fs_calls,           \* how many calls each thread has finished
    fs_pc               \* where each thread is in draw_pixels

fs_vars == <<fs_transforms, fs_filter, fs_scanlines, fs_readers, fs_writer, fs_x_transform,
             fs_y_pos, fs_y_offset, fs_new_scanline, fs_render_scanlines, fs_requested,
             fs_inserted, fs_calls, fs_pc>>

VARIABLES
    \* DrawingState::sprite_transform (draw/sprite.rs)
    ds_sprite_transform, \* DrawingState.sprite_transform
    ds_applied           \* the canvas::SpriteTransform that was applied last

ds_vars == <<ds_sprite_transform, ds_applied>>

VARIABLES
    \* opengl_initialize_offscreen_rendering (offscreen/opengl_egl_init.rs)
    eg_card0,           \* card0: what open returned
    eg_gbm,             \* gbm: "null" or "device"
    eg_extensions,      \* the extensions of the display that were found
    eg_calls,           \* the calls made to libc, GBM, EGL and GL, in order
    eg_result,          \* what the function returned, "none" while it runs
    eg_pc               \* the statement that is run next

eg_vars == <<eg_card0, eg_gbm, eg_extensions, eg_calls, eg_result, eg_pc>>

vars == <<bs_vars, cr_vars, cd_vars, sp_vars, ls_vars, ep_vars, fl_vars, fr_vars, pp_vars, mp_vars, cf_vars, sc_vars, fs_vars, ds_vars, eg_vars>>

\* The variables of the other subsystems
not_bs == <<cr_vars, cd_vars, sp_vars, ls_vars, ep_vars, fl_vars, fr_vars, pp_vars, mp_vars, cf_vars, sc_vars, fs_vars, ds_vars, eg_vars>>

not_cr == <<bs_vars, cd_vars, sp_vars, ls_vars, ep_vars, fl_vars, fr_vars, pp_vars, mp_vars, cf_vars, sc_vars, fs_vars, ds_vars, eg_vars>>

not_cd == <<bs_vars, cr_vars, sp_vars, ls_vars, ep_vars, fl_vars, fr_vars, pp_vars, mp_vars, cf_vars, sc_vars, fs_vars, ds_vars, eg_vars>>

not_sp == <<bs_vars, cr_vars, cd_vars, ls_vars, ep_vars, fl_vars, fr_vars, pp_vars, mp_vars, cf_vars, sc_vars, fs_vars, ds_vars, eg_vars>>

not_ls == <<bs_vars, cr_vars, cd_vars, sp_vars, ep_vars, fl_vars, fr_vars, pp_vars, mp_vars, cf_vars, sc_vars, fs_vars, ds_vars, eg_vars>>

not_ep == <<bs_vars, cr_vars, cd_vars, sp_vars, ls_vars, fl_vars, fr_vars, pp_vars, mp_vars, cf_vars, sc_vars, fs_vars, ds_vars, eg_vars>>

not_fl == <<bs_vars, cr_vars, cd_vars, sp_vars, ls_vars, ep_vars, fr_vars, pp_vars, mp_vars, cf_vars, sc_vars, fs_vars, ds_vars, eg_vars>>

not_fr == <<bs_vars, cr_vars, cd_vars, sp_vars, ls_vars, ep_vars, fl_vars, pp_vars, mp_vars, cf_vars, sc_vars, fs_vars, ds_vars, eg_vars>>

not_pp == <<bs_vars, cr_vars, cd_vars, sp_vars, ls_vars, ep_vars, fl_vars, fr_vars, mp_vars, cf_vars, sc_vars, fs_vars, ds_vars, eg_vars>>

not_mp == <<bs_vars, cr_vars, cd_vars, sp_vars, ls_vars, ep_vars, fl_vars, fr_vars, pp_vars, cf_vars, sc_vars, fs_vars, ds_vars, eg_vars>>

not_cf == <<bs_vars, cr_vars, cd_vars, sp_vars, ls_vars, ep_vars, fl_vars, fr_vars, pp_vars, mp_vars, sc_vars, fs_vars, ds_vars, eg_vars>>

not_sc == <<bs_vars, cr_vars, cd_vars, sp_vars, ls_vars, ep_vars, fl_vars, fr_vars, pp_vars, mp_vars, cf_vars, fs_vars, ds_vars, eg_vars>>

not_fs == <<bs_vars, cr_vars, cd_vars, sp_vars, ls_vars, ep_vars, fl_vars, fr_vars, pp_vars, mp_vars, cf_vars, sc_vars, ds_vars, eg_vars>>

not_ds == <<bs_vars, cr_vars, cd_vars, sp_vars, ls_vars, ep_vars, fl_vars, fr_vars, pp_vars, mp_vars, cf_vars, sc_vars, fs_vars, eg_vars>>

not_eg == <<bs_vars, cr_vars, cd_vars, sp_vars, ls_vars, ep_vars, fl_vars, fr_vars, pp_vars, mp_vars, cf_vars, sc_vars, fs_vars, ds_vars>>

\* ------------------------------------------------------------------------
\* General helpers
\* ------------------------------------------------------------------------

Min(a, b) == IF a < b THEN a ELSE b

Max(a, b) == IF a > b THEN a ELSE b

Front(s) == SubSeq(s, 1, Len(s) - 1)

Last(s) == s[Len(s)]

\* ------------------------------------------------------------------------
\* BufferStack
\* ------------------------------------------------------------------------

\* Bounds of the buffer stack model
BufWidth == 2

MaxPixel == 1

MaxStack == 2

\* TPixel::default()
DefaultPixel == 0

Pixels == 0..MaxPixel

Buffers == [1..BufWidth -> Pixels]

\* A Range<usize> lo..hi within the buffer; it covers the 1-based indices lo+1..hi
Ranges == {r \in (0..BufWidth) \X (0..BufWidth) : r[1] <= r[2]}

InRange(r, i) == r[1] < i /\ i <= r[2]

\* new_entry[range].copy_from_slice(&src[range])
CopyRange(new_entry, src, r) ==
    [i \in 1..BufWidth |-> IF InRange(r, i) THEN src[i] ELSE new_entry[i]]

\* BufferStack::buffer: the top of the stack, or the base buffer
buffer == IF bs_stack # <<>> THEN Last(bs_stack) ELSE bs_first

BufferStackInit ==
    /\ bs_first \in Buffers
    /\ bs_stack = <<>>
    /\ bs_ready = <<>>
    /\ bs_ranges = <<>>
    /\ bs_base0 = bs_first
    /\ bs_pushed = {}

BufferStackIdle ==
    /\ bs_first = [i \in 1..BufWidth |-> DefaultPixel]
    /\ bs_stack = <<>>
    /\ bs_ready = <<>>
    /\ bs_ranges = <<>>
    /\ bs_base0 = bs_first
    /\ bs_pushed = {}

\* NewEntry with the range copied from the base buffer, whatever is pushed
NewEntryFromBase(r) ==
    IF bs_ready # <<>>
    THEN CopyRange(Last(bs_ready), bs_first, r)
    ELSE CopyRange([i \in 1..BufWidth |-> DefaultPixel], bs_first, r)

\* The entry push_entry builds: a buffer from the ready stack, as it was left,
\* or a fresh buffer of default pixels; the range is copied from the top
NewEntry(r) ==
    IF bs_ready # <<>>
    THEN CopyRange(Last(bs_ready), buffer, r)
    ELSE CopyRange([i \in 1..BufWidth |-> DefaultPixel], buffer, r)

push_entry(r) ==
    /\ Len(bs_stack) < MaxStack
    /\ bs_stack' = Append(bs_stack, NewEntry(r))
    /\ bs_ready' = IF bs_ready # <<>> THEN Front(bs_ready) ELSE bs_ready
    /\ bs_ranges' = Append(bs_ranges, r)
    /\ bs_base0' = IF bs_stack = <<>> THEN bs_first ELSE bs_base0
    /\ bs_pushed' = IF bs_stack = <<>>
                    THEN {i \in 1..BufWidth : InRange(r, i)}
                    ELSE bs_pushed \cup {i \in 1..BufWidth : InRange(r, i)}
    /\ UNCHANGED bs_first

\* The per-pixel blend callbacks: both leave the target pixel as it is when the
\* popped pixel is the default pixel
BlendKinds == {"over", "add"}

BlendPixel(kind, src, dst) ==
    IF src = DefaultPixel THEN dst
    ELSE IF kind = "over" THEN src
    ELSE Min(src + dst, MaxPixel)

BlendPixels(kind, removed, target) ==
    [i \in 1..BufWidth |-> BlendPixel(kind, removed[i], target[i])]

pop_entry(kind) ==
    IF bs_stack # <<>>
    THEN LET removed == Last(bs_stack)
             rest    == Front(bs_stack)
         IN  /\ IF rest # <<>>
                THEN /\ bs_stack' = [rest EXCEPT ![Len(rest)] = BlendPixels(kind, removed, Last(rest))]
                     /\ UNCHANGED bs_first
                ELSE /\ bs_stack' = rest
                     /\ bs_first' = BlendPixels(kind, removed, bs_first)
             /\ bs_ready' = Append(bs_ready, removed)
             /\ bs_ranges' = Front(bs_ranges)
             /\ UNCHANGED <<bs_base0, bs_pushed>>
    ELSE UNCHANGED bs_vars

\* The renderer draws into buffer(): into the pushed range of a pushed entry,
\* anywhere in the base buffer
write_buffer(i, px) ==
    IF bs_stack # <<>>
    THEN /\ InRange(Last(bs_ranges), i)
         /\ bs_stack' = [bs_stack EXCEPT ![Len(bs_stack)][i] = px]
         /\ UNCHANGED <<bs_first, bs_ready, bs_ranges, bs_base0, bs_pushed>>
    ELSE /\ bs_first' = [bs_first EXCEPT ![i] = px]
         /\ bs_base0' = bs_first'
         /\ bs_pushed' = {}
         /\ UNCHANGED <<bs_stack, bs_ready, bs_ranges>>

PushEntry == \E r \in Ranges : push_entry(r)

PopEntry == \E kind \in BlendKinds : pop_entry(kind)

WriteBuffer == \E i \in 1..BufWidth, px \in Pixels : write_buffer(i, px)

NextBuf ==
    \/ PushEntry /\ UNCHANGED not_bs
    \/ PopEntry /\ UNCHANGED not_bs
    \/ WriteBuffer /\ UNCHANGED not_bs

\* ------------------------------------------------------------------------
\* CanvasRenderer::tessellate
\* ------------------------------------------------------------------------

\* Bounds of the canvas renderer model
MaxLayers == 3

MaxLayerId == 2

MaxPathLen == 1

MaxJobs == 2

PathOps == {"Move", "Line", "BezierCurve", "ClosePath"}

Colors == {"black", "red"}

LineWidths == {"default", "wide"}

\* CanvasRenderer::create_default_layer
create_default_layer ==
    [render_order |-> <<>>, fill_color |-> "black", line_width |-> "default"]

\* CanvasRenderer::new: no layers, current layer 0
CanvasRendererNew ==
    /\ cr_layers = <<>>
    /\ cr_current_layer = 0
    /\ cr_path_builder = <<>>
    /\ cr_current_path = <<>>
    /\ cr_jobs = <<>>
    /\ cr_pc = "idle"
    /\ cr_layer_id = 0
    /\ cr_cmd = "new"

CanvasRendererInit == CanvasRendererNew

CanvasRendererIdle == CanvasRendererNew

\* core.layers[idx] is in range (idx is 0-based)
LayerExists(idx) == idx < Len(cr_layers)

\* path::Builder::build
build(builder) == builder

\* A handler that indexes core.layers[current_layer] panics when it is out of range
Panic(cmd) ==
    /\ cr_pc' = "panicked"
    /\ cr_cmd' = cmd
    /\ UNCHANGED <<cr_layers, cr_current_layer, cr_path_builder, cr_current_path,
                   cr_jobs, cr_layer_id>>

\* tessellate is entered: the path state is local to the call, and the default
\* layer is created if there is no layer yet
TessellateBegin ==
    /\ cr_pc = "idle"
    /\ cr_pc' = "cmd"
    /\ cr_path_builder' = <<>>
    /\ cr_current_path' = <<>>
    /\ IF Len(cr_layers) = 0
       THEN /\ cr_layers' = <<create_default_layer>>
            /\ cr_current_layer' = 0
       ELSE UNCHANGED <<cr_layers, cr_current_layer>>
    /\ cr_cmd' = "begin"
    /\ UNCHANGED <<cr_jobs, cr_layer_id>>

\* the drawing iterator is exhausted
TessellateEnd ==
    /\ cr_pc = "cmd"
    /\ cr_pc' = "idle"
    /\ cr_cmd' = "end"
    /\ UNCHANGED <<cr_layers, cr_current_layer, cr_path_builder, cr_current_path,
                   cr_jobs, cr_layer_id>>

NewPath ==
    /\ cr_pc = "cmd"
    /\ cr_current_path' = <<>>
    /\ cr_path_builder' = << <<>> >>
    /\ cr_cmd' = "NewPath"
    /\ UNCHANGED <<cr_layers, cr_current_layer, cr_jobs, cr_pc, cr_layer_id>>

\* Move, Line, BezierCurve, ClosePath: path_builder.get_or_insert_with(new).op()
path_op(op) ==
    /\ cr_pc = "cmd"
    /\ LET builder == IF cr_path_builder = <<>> THEN <<>> ELSE cr_path_builder[1]
       IN  /\ Len(builder) < MaxPathLen
           /\ cr_path_builder' = << Append(builder, op) >>
    /\ cr_cmd' = op
    /\ UNCHANGED <<cr_layers, cr_current_layer, cr_current_path, cr_jobs, cr_pc,
                   cr_layer_id>>

PathOp == \E op \in PathOps : path_op(op)

\* if let Some(path_builder) = path_builder.take() { current_path = Some(build()) }
TakePath ==
    IF cr_path_builder # <<>> THEN << build(cr_path_builder[1]) >> ELSE cr_current_path

Fill ==
    /\ cr_pc = "cmd"
    /\ Len(cr_jobs) < MaxJobs
    /\ cr_path_builder' = <<>>
    /\ cr_current_path' = TakePath
    /\ cr_cmd' = "Fill"
    /\ IF TakePath # <<>>
       THEN LET layer_id == cr_current_layer
            IN  IF LayerExists(layer_id)
                THEN LET color        == cr_layers[layer_id + 1].fill_color
                         entity_index == Len(cr_layers[layer_id + 1].render_order)
                     IN  /\ cr_layers' = [cr_layers EXCEPT ![layer_id + 1].render_order =
                                              Append(@, "Tessellating")]
                         /\ cr_jobs' = Append(cr_jobs,
                                [path |-> TakePath[1], color |-> color,
                                 layer_id |-> layer_id, entity_index |-> entity_index])
                         /\ UNCHANGED cr_pc
                ELSE /\ cr_pc' = "panicked"
                     /\ UNCHANGED <<cr_layers, cr_jobs>>
       ELSE UNCHANGED <<cr_layers, cr_jobs, cr_pc>>
    /\ UNCHANGED <<cr_current_layer, cr_layer_id>>

Stroke ==
    /\ cr_pc = "cmd"
    /\ cr_path_builder' = <<>>
    /\ cr_current_path' = TakePath
    /\ cr_cmd' = "Stroke"
    /\ UNCHANGED <<cr_layers, cr_current_layer, cr_jobs, cr_pc, cr_layer_id>>

\* LineWidth, LineJoin, LineCap, NewDashPattern, DashLength, DashOffset and
\* StrokeColor all assign a field of core.layers[current_layer].stroke_settings
line_width(width) ==
    /\ cr_pc = "cmd"
    /\ IF LayerExists(cr_current_layer)
       THEN /\ cr_layers' = [cr_layers EXCEPT ![cr_current_layer + 1].line_width = width]
            /\ cr_cmd' = "LineWidth"
            /\ UNCHANGED <<cr_current_layer, cr_path_builder, cr_current_path,
                           cr_jobs, cr_pc, cr_layer_id>>
       ELSE Panic("LineWidth")

LineWidth == \E width \in LineWidths : line_width(width)

fill_color(color) ==
    /\ cr_pc = "cmd"
    /\ IF LayerExists(cr_current_layer)
       THEN /\ cr_layers' = [cr_layers EXCEPT ![cr_current_layer + 1].fill_color = color]
            /\ cr_cmd' = "FillColor"
            /\ UNCHANGED <<cr_current_layer, cr_path_builder, cr_current_path,
                           cr_jobs, cr_pc, cr_layer_id>>
       ELSE Panic("FillColor")

FillColor == \E color \in Colors : fill_color(color)

\* LineWidthPixels, BlendMode, the transform commands, Clip, Store, PushState,
\* LayerBlend, ...: branches with an empty body
NoOpCommand ==
    /\ cr_pc = "cmd"
    /\ cr_cmd' = "NoOp"
    /\ UNCHANGED <<cr_layers, cr_current_layer, cr_path_builder, cr_current_path,
                   cr_jobs, cr_pc, cr_layer_id>>

ClearCanvas ==
    /\ cr_pc = "cmd"
    /\ cr_layers' = <<create_default_layer>>
    /\ cr_current_layer' = 0
    /\ cr_cmd' = "ClearCanvas"
    /\ UNCHANGED <<cr_path_builder, cr_current_path, cr_jobs, cr_pc, cr_layer_id>>

\* Layer(layer_id): the handler is entered ...
layer_begin(layer_id) ==
    /\ cr_pc = "cmd"
    /\ cr_pc' = "layer_loop"
    /\ cr_layer_id' = layer_id
    /\ cr_cmd' = "Layer"
    /\ UNCHANGED <<cr_layers, cr_current_layer, cr_path_builder, cr_current_path,
                   cr_jobs>>

LayerBegin == \E layer_id \in 0..MaxLayerId : layer_begin(layer_id)

\* ... the condition of its loop
LayerLoopCondition == cr_layer_id <= Len(cr_layers)

\* ... one iteration of while layer_id <= core.layers.len() { layers.push(default) }
LayerLoopPush ==
    /\ cr_pc = "layer_loop"
    /\ LayerLoopCondition
    /\ Len(cr_layers) < MaxLayers
    /\ cr_layers' = Append(cr_layers, create_default_layer)
    /\ UNCHANGED <<cr_current_layer, cr_path_builder, cr_current_path, cr_jobs,
                   cr_pc, cr_layer_id, cr_cmd>>

\* ... and the loop is left: self.current_layer = layer_id
LayerLoopExit ==
    /\ cr_pc = "layer_loop"
    /\ ~LayerLoopCondition
    /\ cr_current_layer' = cr_layer_id
    /\ cr_pc' = "cmd"
    /\ UNCHANGED <<cr_layers, cr_path_builder, cr_current_path, cr_jobs,
                   cr_layer_id, cr_cmd>>

ClearLayer ==
    /\ cr_pc = "cmd"
    /\ IF LayerExists(cr_current_layer)
       THEN /\ cr_layers' = [cr_layers EXCEPT ![cr_current_layer + 1] = create_default_layer]
            /\ cr_cmd' = "ClearLayer"
            /\ UNCHANGED <<cr_current_layer, cr_path_builder, cr_current_path,
                           cr_jobs, cr_pc, cr_layer_id>>
       ELSE Panic("ClearLayer")

NextCanvas ==
    \/ TessellateBegin /\ UNCHANGED not_cr
    \/ TessellateEnd /\ UNCHANGED not_cr
    \/ NewPath /\ UNCHANGED not_cr
    \/ PathOp /\ UNCHANGED not_cr
    \/ Fill /\ UNCHANGED not_cr
    \/ Stroke /\ UNCHANGED not_cr
    \/ LineWidth /\ UNCHANGED not_cr
    \/ FillColor /\ UNCHANGED not_cr
    \/ NoOpCommand /\ UNCHANGED not_cr
    \/ ClearCanvas /\ UNCHANGED not_cr
    \/ LayerBegin /\ UNCHANGED not_cr
    \/ LayerLoopPush /\ UNCHANGED not_cr
    \/ LayerLoopExit /\ UNCHANGED not_cr
    \/ ClearLayer /\ UNCHANGED not_cr

\* ------------------------------------------------------------------------
\* CanvasDrawing::draw
\* ------------------------------------------------------------------------

\* Bound: the length of a drawing
MaxDrawLen == 3

FrameInstructions == {"StartFrame", "ShowFrame", "ResetFrame"}

Instructions == FrameInstructions \cup {"ClearCanvas"}

Drawings == UNION {[1..n -> Instructions] : n \in 0..MaxDrawLen}

\* CanvasDrawing::empty, and draw is called with a drawing
CanvasDrawingInit ==
    /\ cd_drawing \in Drawings
    /\ cd_pos = 0
    /\ cd_pc = "running"

CanvasDrawingIdle ==
    /\ cd_drawing = <<>>
    /\ cd_pos = 0
    /\ cd_pc = "running"

\* for instruction in drawing { match instruction { X => { todo!() }, ... } }:
\* every branch of the match is todo!(), which panics
DrawInstruction ==
    /\ cd_pc = "running"
    /\ cd_pos < Len(cd_drawing)
    /\ cd_pos' = cd_pos + 1
    /\ cd_pc' = "aborted"
    /\ UNCHANGED cd_drawing

\* the iterator is exhausted: draw returns
DrawReturn ==
    /\ cd_pc = "running"
    /\ cd_pos = Len(cd_drawing)
    /\ cd_pc' = "returned"
    /\ UNCHANGED <<cd_drawing, cd_pos>>

NextDraw ==
    \/ DrawInstruction /\ UNCHANGED not_cd
    \/ DrawReturn /\ UNCHANGED not_cd

\* ------------------------------------------------------------------------
\* Sprites of a CanvasDrawing
\* ------------------------------------------------------------------------

\* Bounds of the sprite model
MaxNamespace == 1

MaxSpriteId == 0

MaxSprites == 1

MaxShapes == 3

MaxFilters == 1

MaxSelectId == 1

MaxSpriteLayers == 4

Namespaces == 0..MaxNamespace

SpriteIds == 0..MaxSpriteId

RECURSIVE ShapeCount(_)
\* The number of shapes in the layers with a handle up to layer_handle
ShapeCount(layer_handle) ==
    IF layer_handle < 0 THEN 0
    ELSE Len(sp_layers[layer_handle].shapes) + ShapeCount(layer_handle - 1)

\* The number of shapes in the drawing, which the model bounds
TotalShapes == ShapeCount(sp_next_layer_handle - 1)

\* sp_cmd after an operation that draws no sprite
NoDraw == [op |-> "none", id |-> 0, filtered |-> FALSE]

\* Layer::default
DefaultLayer == [z_index |-> 0, shapes |-> <<>>, used_data |-> <<>>]

\* A drawing with one layer, which is the current layer, and no sprite
SpritesInit ==
    /\ sp_namespace = 0
    /\ sp_sprites = <<>>
    /\ sp_next_layer_handle = 1
    /\ sp_layers = (0 :> DefaultLayer)
    /\ sp_current_layer = 0
    /\ sp_prepared = <<>>
    /\ sp_program_data = <<>>
    /\ sp_pc = "ok"
    /\ sp_cmd = NoDraw

SpritesIdle == SpritesInit

\* Namespace(id)
namespace(ns) ==
    /\ sp_pc = "ok"
    /\ sp_namespace' = ns
    /\ sp_cmd' = NoDraw
    /\ UNCHANGED <<sp_sprites, sp_next_layer_handle, sp_layers, sp_current_layer,
                   sp_prepared, sp_program_data, sp_pc>>

\* CanvasDrawing::sprite without `self.next_layer_handle.0 += 1`
sprite_handle_not_advanced(sprite_id) ==
    /\ sp_pc = "ok"
    /\ LET key == <<sp_namespace, sprite_id>>
       IN  IF key \in DOMAIN sp_sprites
           THEN /\ sp_current_layer' = sp_sprites[key]
                /\ UNCHANGED <<sp_sprites, sp_next_layer_handle, sp_layers>>
           ELSE LET new_layer_handle == sp_next_layer_handle
                IN  /\ UNCHANGED sp_next_layer_handle
                    /\ sp_layers' = (new_layer_handle :> DefaultLayer) @@ sp_layers
                    /\ sp_sprites' = (key :> new_layer_handle) @@ sp_sprites
                    /\ sp_current_layer' = new_layer_handle
    /\ sp_cmd' = NoDraw
    /\ UNCHANGED <<sp_namespace, sp_prepared, sp_program_data, sp_pc>>

\* CanvasDrawing::sprite
sprite(sprite_id) ==
    /\ sp_pc = "ok"
    /\ LET key == <<sp_namespace, sprite_id>>
       IN  IF key \in DOMAIN sp_sprites
           THEN /\ sp_current_layer' = sp_sprites[key]
                /\ UNCHANGED <<sp_sprites, sp_next_layer_handle, sp_layers>>
           ELSE LET new_layer_handle == sp_next_layer_handle
                IN  /\ sp_next_layer_handle' = sp_next_layer_handle + 1
                    /\ sp_layers' = (new_layer_handle :> DefaultLayer) @@ sp_layers
                    /\ sp_sprites' = (key :> new_layer_handle) @@ sp_sprites
                    /\ sp_current_layer' = new_layer_handle
    /\ sp_cmd' = NoDraw
    /\ UNCHANGED <<sp_namespace, sp_prepared, sp_program_data, sp_pc>>

\* Layer(0): the canvas layer that is selected initially becomes the current
\* layer again
select_layer ==
    /\ sp_pc = "ok"
    /\ sp_current_layer' = 0
    /\ sp_cmd' = NoDraw
    /\ UNCHANGED <<sp_namespace, sp_sprites, sp_next_layer_handle, sp_layers,
                   sp_prepared, sp_program_data, sp_pc>>

\* A fill drawn into the current layer: a shape with the next z-index is added
\* to the layer's edge plan and the layer is no longer prepared
fill_shape ==
    /\ sp_pc = "ok"
    /\ sp_current_layer \in DOMAIN sp_layers
    /\ TotalShapes < MaxShapes
    /\ LET layer == sp_layers[sp_current_layer]
       IN  sp_layers' = [sp_layers EXCEPT ![sp_current_layer] =
               [z_index   |-> layer.z_index + 1,
                shapes    |-> Append(layer.shapes,
                                [z_index |-> layer.z_index, program |-> "fill",
                                 data |-> 0]),
                used_data |-> layer.used_data]]
    /\ sp_prepared' = [h \in DOMAIN sp_prepared \ {sp_current_layer} |-> sp_prepared[h]]
    /\ sp_cmd' = NoDraw
    /\ UNCHANGED <<sp_namespace, sp_sprites, sp_next_layer_handle, sp_current_layer,
                   sp_program_data, sp_pc>>

\* CanvasDrawing::prepare_sprite_layer: the cache after the call ...
PreparedAfter(layer_handle) ==
    IF layer_handle \in DOMAIN sp_prepared THEN sp_prepared
    ELSE IF layer_handle \in DOMAIN sp_layers
         THEN (layer_handle :> sp_layers[layer_handle].shapes) @@ sp_prepared
         ELSE sp_prepared

\* ... and the edges of the prepared layer it returns
PreparedEdges(layer_handle) ==
    IF layer_handle \in DOMAIN sp_prepared THEN sp_prepared[layer_handle]
    ELSE IF layer_handle \in DOMAIN sp_layers
         THEN sp_layers[layer_handle].shapes
         ELSE <<>>

\* Mutant of SpriteLookup: the namespace is not part of the key
SpriteLookupAnyNamespace(sprite_id) ==
    IF \E key \in DOMAIN sp_sprites : key[2] = sprite_id
    THEN << sp_sprites[CHOOSE key \in DOMAIN sp_sprites : key[2] = sprite_id] >>
    ELSE <<>>

\* self.sprites.get(&(self.current_namespace, sprite_id))
SpriteLookup(sprite_id) ==
    IF <<sp_namespace, sprite_id>> \in DOMAIN sp_sprites
    THEN << sp_sprites[<<sp_namespace, sprite_id>>] >>
    ELSE <<>>

\* The sprite is defined, its layer has edges and the current layer exists:
\* the call draws a shape (the model bounds the shapes and the program data)
WouldDraw(sprite_id) ==
    /\ SpriteLookup(sprite_id) # <<>>
    /\ PreparedEdges(SpriteLookup(sprite_id)[1]) # <<>>
    /\ sp_current_layer \in DOMAIN sp_layers

\* DrawSpriteLayer without `current_layer.z_index += 1`
DrawSpriteLayerNoIncrement(sprite_id, program) ==
    LET found == SpriteLookup(sprite_id)
    IN  IF found # <<>>
        THEN LET sprite_layer == PreparedEdges(found[1])
                 prepared     == PreparedAfter(found[1])
             IN  IF sprite_layer # <<>>
                 THEN IF sp_current_layer \in DOMAIN sp_layers
                      THEN LET layer   == sp_layers[sp_current_layer]
                               z_index == layer.z_index
                               data_id == Len(sp_program_data)
                           IN  /\ sp_program_data' = Append(sp_program_data, program)
                               /\ sp_layers' = [sp_layers EXCEPT ![sp_current_layer] =
                                      [z_index   |-> layer.z_index,
                                       shapes    |-> Append(layer.shapes,
                                                       [z_index |-> z_index,
                                                        program |-> program,
                                                        data |-> data_id]),
                                       used_data |-> Append(layer.used_data, data_id)]]
                               /\ sp_prepared' = [h \in DOMAIN prepared \ {sp_current_layer}
                                                      |-> prepared[h]]
                               /\ UNCHANGED sp_pc
                      ELSE /\ sp_pc' = "panicked"
                           /\ sp_prepared' = prepared
                           /\ UNCHANGED <<sp_layers, sp_program_data>>
                 ELSE /\ sp_prepared' = prepared
                      /\ UNCHANGED <<sp_layers, sp_program_data, sp_pc>>
        ELSE UNCHANGED <<sp_layers, sp_program_data, sp_prepared, sp_pc>>

\* The body shared by sprite_draw and the filtered branch of
\* sprite_draw_with_filters; program is the pixel program whose data is stored
DrawSpriteLayer(sprite_id, program) ==
    LET found == SpriteLookup(sprite_id)
    IN  IF found # <<>>
        THEN LET sprite_layer == PreparedEdges(found[1])
                 prepared     == PreparedAfter(found[1])
             IN  IF sprite_layer # <<>>
                 THEN IF sp_current_layer \in DOMAIN sp_layers
                      THEN LET layer   == sp_layers[sp_current_layer]
                               z_index == layer.z_index
                               data_id == Len(sp_program_data)
                           IN  /\ sp_program_data' = Append(sp_program_data, program)
                               /\ sp_layers' = [sp_layers EXCEPT ![sp_current_layer] =
                                      [z_index   |-> layer.z_index + 1,
                                       shapes    |-> Append(layer.shapes,
                                                       [z_index |-> z_index,
                                                        program |-> program,
                                                        data |-> data_id]),
                                       used_data |-> Append(layer.used_data, data_id)]]
                               /\ sp_prepared' = [h \in DOMAIN prepared \ {sp_current_layer}
                                                      |-> prepared[h]]
                               /\ UNCHANGED sp_pc
                      ELSE /\ sp_pc' = "panicked"
                           /\ sp_prepared' = prepared
                           /\ UNCHANGED <<sp_layers, sp_program_data>>
                 ELSE /\ sp_prepared' = prepared
                      /\ UNCHANGED <<sp_layers, sp_program_data, sp_pc>>
        ELSE UNCHANGED <<sp_layers, sp_program_data, sp_prepared, sp_pc>>

\* CanvasDrawing::sprite_draw; aligned says whether the sprite's footprint is
\* axis-aligned on the canvas (BasicSprite) or not (TransformedSprite)
sprite_draw(sprite_id, aligned) ==
    /\ sp_pc = "ok"
    /\ WouldDraw(sprite_id) => TotalShapes < MaxShapes
    /\ DrawSpriteLayer(sprite_id, IF aligned THEN "basic_sprite" ELSE "transformed_sprite")
    /\ sp_cmd' = [op |-> "sprite_draw", id |-> sprite_id, filtered |-> FALSE]
    /\ UNCHANGED <<sp_namespace, sp_sprites, sp_next_layer_handle, sp_current_layer>>

\* CanvasDrawing::sprite_draw_with_filters with a list of filters of that length
sprite_draw_with_filters(sprite_id, filters, aligned) ==
    /\ sp_pc = "ok"
    /\ WouldDraw(sprite_id) => TotalShapes < MaxShapes
    /\ IF filters = 0
       THEN DrawSpriteLayer(sprite_id, IF aligned THEN "basic_sprite" ELSE "transformed_sprite")
       ELSE DrawSpriteLayer(sprite_id, "filtered_sprite")
    /\ sp_cmd' = [op |-> "sprite_draw_with_filters", id |-> sprite_id,
                  filtered |-> filters > 0]
    /\ UNCHANGED <<sp_namespace, sp_sprites, sp_next_layer_handle, sp_current_layer>>

Namespace == \E ns \in Namespaces : namespace(ns)

\* The model bounds the sprite layers that are created
Sprite ==
    \E sprite_id \in SpriteIds :
        /\ <<sp_namespace, sprite_id>> \notin DOMAIN sp_sprites =>
               sp_next_layer_handle <= MaxSprites
        /\ sprite(sprite_id)

\* Sprite selection on its own, with more sprite ids and sprite layers
SpriteSelect ==
    \E sprite_id \in 0..MaxSelectId :
        /\ <<sp_namespace, sprite_id>> \notin DOMAIN sp_sprites =>
               sp_next_layer_handle <= MaxSpriteLayers
        /\ sprite(sprite_id)

SelectLayer == select_layer

FillShape == fill_shape

SpriteDraw == \E sprite_id \in SpriteIds, aligned \in BOOLEAN : sprite_draw(sprite_id, aligned)

SpriteDrawWithFilters ==
    \E sprite_id \in SpriteIds, filters \in 0..MaxFilters, aligned \in BOOLEAN :
        sprite_draw_with_filters(sprite_id, filters, aligned)

NextSprite ==
    \/ Namespace /\ UNCHANGED not_sp
    \/ Sprite /\ UNCHANGED not_sp
    \/ SelectLayer /\ UNCHANGED not_sp
    \/ FillShape /\ UNCHANGED not_sp
    \/ SpriteDraw /\ UNCHANGED not_sp
    \/ SpriteDrawWithFilters /\ UNCHANGED not_sp

NextSpriteSelect ==
    \/ Namespace /\ UNCHANGED not_sp
    \/ SpriteSelect /\ UNCHANGED not_sp
    \/ SelectLayer /\ UNCHANGED not_sp

\* ------------------------------------------------------------------------
\* LineStrokeEdge and FlattenedLineStrokeEdge
\* ------------------------------------------------------------------------

\* Bounds of the edge models
MaxCoord == 1

MaxShapeId == 1

MaxSubpaths == 2

MaxYPositions == 2

\* f64::MAX and f64::MIN, beyond every coordinate of the model
F64_MAX == 99

F64_MIN == -99

Coords == 0..MaxCoord

ShapeIds == 0..MaxShapeId

\* A stroked sub-path (BezierSubpathNonZeroEdge, FlattenedBezierNonZeroEdge),
\* which is a closed path: it covers the scanline y from x to x + 1
StrokedSubpaths == [y : Coords, x : Coords]

SubpathLists == UNION {[1..n -> StrokedSubpaths] : n \in 0..MaxSubpaths}

EdgeKinds == {"LineStrokeEdge", "FlattenedLineStrokeEdge"}

\* The y_positions of a call
YPositions == UNION {[1..n -> Coords] : n \in 0..MaxYPositions}

\* The bounding box of a sub-path, as <<<<min_x, min_y>>, <<max_x, max_y>>>>
subpath_bounding_box(path) == << <<path.x, path.y>>, <<path.x + 1, path.y + 1>> >>

\* The intercepts of a sub-path on one scanline, in x order
subpath_intercepts_at(path, y_pos) ==
    IF path.y = y_pos
    THEN << [direction |-> "DirectionIn", x_pos |-> path.x],
            [direction |-> "DirectionOut", x_pos |-> path.x + 1] >>
    ELSE <<>>

\* The intercepts method of a sub-path overwrites every bucket of the output
subpath_intercepts(path, y_positions, output) ==
    [idx \in 1..Len(y_positions) |-> subpath_intercepts_at(path, y_positions[idx])]

\* LineStrokeEdge::new, FlattenedLineStrokeEdge::new: strokes are the sub-paths
\* that stroking path_edges between the subpaths indexes generates
new_edge(kind, shape_id, strokes) ==
    [kind |-> kind, shape_id |-> shape_id, strokes |-> strokes, bezier_path |-> <<>>]

NewEdges ==
    {new_edge(kind, shape_id, strokes) :
        kind \in EdgeKinds, shape_id \in ShapeIds, strokes \in SubpathLists}

\* EdgeDescriptor::prepare_to_render: bezier_path is cleared and rebuilt
edge_prepare_to_render(edge) == [edge EXCEPT !.bezier_path = edge.strokes]

SetMin(S) == CHOOSE a \in S : \A b \in S : a <= b

SetMax(S) == CHOOSE a \in S : \A b \in S : a >= b

\* EdgeDescriptor::bounding_box, as <<<<min_x, min_y>>, <<max_x, max_y>>>>
bounding_box(edge) ==
    LET boxes == {subpath_bounding_box(edge.bezier_path[k]) : k \in DOMAIN edge.bezier_path}
    IN  << <<SetMin({F64_MAX} \cup {b[1][1] : b \in boxes}),
             SetMin({F64_MAX} \cup {b[1][2] : b \in boxes})>>,
           <<SetMax({F64_MIN} \cup {b[2][1] : b \in boxes}),
             SetMax({F64_MIN} \cup {b[2][2] : b \in boxes})>> >>

RECURSIVE InsertByXPos(_, _)
\* The place of an item in a list sorted by x_pos, after the items that are equal
InsertByXPos(sorted, item) ==
    IF sorted = <<>> THEN <<item>>
    ELSE IF Last(sorted).x_pos <= item.x_pos THEN Append(sorted, item)
         ELSE Append(InsertByXPos(Front(sorted), item), Last(sorted))

RECURSIVE sort_by_x_pos(_)
\* sort_by(|a, b| a.x_pos.total_cmp(&b.x_pos)), which is a stable sort
sort_by_x_pos(list) ==
    IF list = <<>> THEN <<>>
    ELSE InsertByXPos(sort_by_x_pos(Front(list)), Last(list))

RECURSIVE OtherPaths(_, _, _)
\* for path in bezier_path.iter().skip(1): the path's intercepts are read into
\* tmp_output and drained into the output
OtherPaths(paths, y_positions, output) ==
    IF paths = <<>> THEN output
    ELSE LET tmp_output == subpath_intercepts(Head(paths), y_positions,
                                              [idx \in 1..Len(y_positions) |-> <<>>])
         IN  OtherPaths(Tail(paths), y_positions,
                        [idx \in 1..Len(output) |->
                            IF idx <= Len(tmp_output) THEN output[idx] \o tmp_output[idx]
                            ELSE output[idx]])

\* LineStrokeEdge::intercepts and FlattenedLineStrokeEdge::intercepts: the value
\* of output after the call
intercepts(edge, y_positions, output) ==
    CASE Len(edge.bezier_path) = 0 -> output
      [] Len(edge.bezier_path) = 1 ->
            subpath_intercepts(edge.bezier_path[1], y_positions, output)
      [] OTHER ->
            LET merged == OtherPaths(Tail(edge.bezier_path), y_positions,
                              subpath_intercepts(edge.bezier_path[1], y_positions, output))
            IN  [idx \in 1..Len(merged) |-> sort_by_x_pos(merged[idx])]

\* An edge that was created and not yet prepared; no call was made
StrokeEdgeInit ==
    /\ ls_edge \in NewEdges
    /\ ls_y_positions = <<>>
    /\ ls_output = <<>>
    /\ ls_cmd = "new"

StrokeEdgeIdle ==
    /\ ls_edge = new_edge("LineStrokeEdge", 0, <<>>)
    /\ ls_y_positions = <<>>
    /\ ls_output = <<>>
    /\ ls_cmd = "new"

\* The caller turns to another edge and keeps its buffer
StrokeNew ==
    /\ \E edge \in NewEdges : ls_edge' = edge
    /\ ls_cmd' = "new"
    /\ UNCHANGED <<ls_y_positions, ls_output>>

StrokePrepareToRender ==
    /\ ls_edge' = edge_prepare_to_render(ls_edge)
    /\ ls_cmd' = "prepare_to_render"
    /\ UNCHANGED <<ls_y_positions, ls_output>>

\* intercepts(y_positions, output): the caller passes the buffer of its last
\* call when that has one bucket per y position, and a new buffer otherwise
StrokeIntercepts ==
    \E y_positions \in YPositions :
        LET output == IF Len(ls_output) = Len(y_positions) THEN ls_output
                      ELSE [idx \in 1..Len(y_positions) |-> <<>>]
        IN  /\ ls_output' = intercepts(ls_edge, y_positions, output)
            /\ ls_y_positions' = y_positions
            /\ ls_cmd' = "intercepts"
            /\ UNCHANGED ls_edge

NextStroke ==
    \/ StrokeNew /\ UNCHANGED not_ls
    \/ StrokePrepareToRender /\ UNCHANGED not_ls
    \/ StrokeIntercepts /\ UNCHANGED not_ls

\* ------------------------------------------------------------------------
\* EdgePlan
\* ------------------------------------------------------------------------

\* Bound: the number of edges of a plan
MaxEdges == 2

\* EdgePlan::new
EdgePlanInit ==
    /\ ep_edges = <<>>
    /\ ep_edge_space = <<>>
    /\ ep_max_prepared = 0
    /\ ep_prepare_calls = <<>>
    /\ ep_prepare_run = 0
    /\ ep_y_positions = <<>>
    /\ ep_stale = <<>>
    /\ ep_output = <<>>
    /\ ep_cmd = "new"

EdgePlanIdle == EdgePlanInit

RECURSIVE StrokeCount(_)
\* The number of sub-paths of the first edges of the plan
StrokeCount(edge_count) ==
    IF edge_count = 0 THEN 0
    ELSE Len(ep_edges[edge_count].edge.strokes) + StrokeCount(edge_count - 1)

\* The number of sub-paths of the plan, which the model bounds
TotalSubpaths == StrokeCount(Len(ep_edges))

\* EdgePlan::add_edge
add_edge(edge) ==
    /\ Len(ep_edges) < MaxEdges
    /\ TotalSubpaths + Len(edge.strokes) <= MaxSubpaths
    /\ ep_edges' = Append(ep_edges, [edge |-> edge, y_bounds |-> <<F64_MIN, F64_MAX>>])
    /\ ep_prepare_calls' = Append(ep_prepare_calls, 0)
    /\ ep_prepare_run' = 0
    /\ ep_cmd' = "add_edge"
    /\ UNCHANGED <<ep_edge_space, ep_max_prepared, ep_y_positions, ep_stale, ep_output>>

\* Space1D::from_data over (edge.y_bounds, idx)
space_from_data(edges) ==
    [idx \in 1..Len(edges) |-> [range |-> edges[idx].y_bounds, data |-> idx]]

\* Space1D::data_in_region: the data of the ranges that overlap the region
\* min..max+1e-6; every bound is a whole number, so a range that starts below
\* max+1e-6 starts at max or below
data_in_region(space, region) ==
    {space[k].data : k \in {k \in DOMAIN space :
        /\ space[k].range[1] <= region.max
        /\ space[k].range[2] > region.min}}

\* PrepareEdges that skips one edge more than max_prepared
PrepareEdgesSkipOneMore(edges, max_prepared) ==
    [idx \in 1..Len(edges) |->
        IF idx > max_prepared + 1
        THEN LET edge == edge_prepare_to_render(edges[idx].edge)
             IN  [edge     |-> edge,
                  y_bounds |-> <<bounding_box(edge)[1][2], bounding_box(edge)[2][2]>>]
        ELSE edges[idx]]

\* edges.iter_mut().skip(max_prepared).for_each(...): the edge is prepared and
\* its y_bounds become min_y..max_y of its bounding box
PrepareEdges(edges, max_prepared) ==
    [idx \in 1..Len(edges) |->
        IF idx > max_prepared
        THEN LET edge == edge_prepare_to_render(edges[idx].edge)
             IN  [edge     |-> edge,
                  y_bounds |-> <<bounding_box(edge)[1][2], bounding_box(edge)[2][2]>>]
        ELSE edges[idx]]

\* Mutant of prepare_to_render: every edge is prepared on every call
prepare_to_render_every_edge ==
    /\ ep_edges' = PrepareEdges(ep_edges, 0)
    /\ ep_prepare_calls' = [idx \in 1..Len(ep_edges) |-> ep_prepare_calls[idx] + 1]
    /\ ep_max_prepared' = Len(ep_edges)
    /\ ep_edge_space' = space_from_data(PrepareEdges(ep_edges, 0))
    /\ ep_prepare_run' = Min(ep_prepare_run + 1, 2)
    /\ ep_cmd' = "prepare_to_render"
    /\ UNCHANGED <<ep_y_positions, ep_stale, ep_output>>

\* EdgePlan::prepare_to_render
prepare_to_render ==
    /\ IF ep_max_prepared # Len(ep_edges)
       THEN /\ ep_edges' = PrepareEdges(ep_edges, ep_max_prepared)
            /\ ep_prepare_calls' = [idx \in 1..Len(ep_edges) |->
                   IF idx > ep_max_prepared THEN ep_prepare_calls[idx] + 1
                   ELSE ep_prepare_calls[idx]]
            /\ ep_max_prepared' = Len(ep_edges)
            /\ ep_edge_space' = space_from_data(PrepareEdges(ep_edges, ep_max_prepared))
       ELSE UNCHANGED <<ep_edges, ep_prepare_calls, ep_max_prepared, ep_edge_space>>
    /\ ep_prepare_run' = Min(ep_prepare_run + 1, 2)
    /\ ep_cmd' = "prepare_to_render"
    /\ UNCHANGED <<ep_y_positions, ep_stale, ep_output>>

\* y_min..y_max of the y positions
ScanlineRegion(y_positions) ==
    [min |-> SetMin({F64_MAX} \cup {y_positions[k] : k \in DOMAIN y_positions}),
     max |-> SetMax({F64_MIN} \cup {y_positions[k] : k \in DOMAIN y_positions})]

\* EdgeIntercept { shape, direction, x_pos } of every intercept of a bucket
Tagged(bucket, shape_id) ==
    [k \in 1..Len(bucket) |->
        [shape |-> shape_id, direction |-> bucket[k].direction, x_pos |-> bucket[k].x_pos]]

RECURSIVE EdgeLoop(_, _, _, _, _)
\* for edge_idx in edge_space.data_in_region(...): the edge's intercepts are read
\* into edge_intercepts, which is the same buffer for every edge, and pushed;
\* edges is self.edges
EdgeLoop(edges, order, y_positions, edge_intercepts, output) ==
    IF order = <<>> THEN output
    ELSE LET edge     == edges[Head(order)].edge
             shape_id == edge.shape_id
             read     == intercepts(edge, y_positions, edge_intercepts)
         IN  EdgeLoop(edges, Tail(order), y_positions, read,
                      [idx \in 1..Len(output) |->
                          IF idx <= Len(y_positions)
                          THEN output[idx] \o Tagged(read[idx], shape_id)
                          ELSE output[idx]])

\* Mutant of intercepts_on_scanlines: the output is not cleared
intercepts_on_scanlines_uncleared(edges, y_positions, output, order) ==
    LET pushed == EdgeLoop(edges, order, y_positions,
                           [idx \in 1..Len(y_positions) |-> <<>>], output)
    IN  [idx \in 1..Len(pushed) |-> sort_by_x_pos(pushed[idx])]

\* EdgePlan::intercepts_on_scanlines: the value of output after the call; order
\* is the order in which data_in_region yields the edges
intercepts_on_scanlines(edges, y_positions, output, order) ==
    LET cleared == [idx \in 1..Len(output) |-> <<>>]
        pushed  == EdgeLoop(edges, order, y_positions,
                            [idx \in 1..Len(y_positions) |-> <<>>], cleared)
    IN  [idx \in 1..Len(pushed) |-> sort_by_x_pos(pushed[idx])]

\* The orders in which the items of a set can be listed
Orders(S) ==
    {order \in [1..Cardinality(S) -> S] :
        \A a, b \in 1..Cardinality(S) : order[a] = order[b] => a = b}

\* What a bucket of the caller's output may hold before the call
StaleBuckets == {<<>>, << [shape |-> 0, direction |-> "DirectionOut", x_pos |-> 0] >>}

\* The plan is an EdgePlan<LineStrokeEdge>
AddEdge == \E edge \in {e \in NewEdges : e.kind = "LineStrokeEdge"} : add_edge(edge)

PrepareToRender == prepare_to_render

IntersectScanlines ==
    \E y_positions \in YPositions :
        \E stale \in [1..Len(y_positions) -> StaleBuckets] :
            \E order \in Orders(data_in_region(ep_edge_space, ScanlineRegion(y_positions))) :
                /\ ep_output' = intercepts_on_scanlines(ep_edges, y_positions, stale, order)
                /\ ep_y_positions' = y_positions
                /\ ep_stale' = stale
                /\ ep_cmd' = "intercepts_on_scanlines"
                /\ UNCHANGED <<ep_edges, ep_edge_space, ep_max_prepared,
                               ep_prepare_calls, ep_prepare_run>>

NextPlan ==
    \/ AddEdge /\ UNCHANGED not_ep
    \/ PrepareToRender /\ UNCHANGED not_ep
    \/ IntersectScanlines /\ UNCHANGED not_ep

\* ------------------------------------------------------------------------
\* PixelFilter: AlphaBlendFilter, MaskFilter, CombinedFilter
\* ------------------------------------------------------------------------

\* Bounds of the filter model
MaxMaskHeight == 2

MaxCombined == 2

MaxYPos == 1

MaxWidth == 2

\* What a pixel of the output line holds before the call: no pixel value
StalePixel == MaxPixel + 1

\* A mask texture of one column: the alpha of each of its lines
Masks == UNION {[1..height -> Pixels] : height \in 1..MaxMaskHeight}

AlphaBlendFilters == [type : {"AlphaBlendFilter"}, alpha : Pixels]

MaskFilters == [type : {"MaskFilter"}, mask : Masks, mult_y : 0..1]

SimpleFilters == AlphaBlendFilters \cup MaskFilters

CombinedFilters ==
    [type : {"CombinedFilter"},
     filters : UNION {[1..n -> SimpleFilters] : n \in 0..MaxCombined}]

Filters == SimpleFilters \cup CombinedFilters

\* input * alpha, for a pixel and an alpha between 0 and MaxPixel
MulAlpha(input, alpha) == (input * alpha) \div MaxPixel

\* The largest radius of a blur kernel
MaxRadius == 1

\* The most filters in the chain of a CombinedFilter whose buffers are followed
MaxChain == 3

\* The Gaussian blur is a vertical and a horizontal kernel filter, each of a radius
KernelFilters == [type : {"VerticalKernelFilter", "HorizontalKernelFilter"}, radius : 1..MaxRadius]

\* The vertical kernel reads radius lines above and below the line it produces
vertical_kernel_input_lines(filter) == <<filter.radius, filter.radius>>

\* The horizontal kernel reads radius columns left and right of each pixel
horizontal_kernel_extra_columns(filter) == <<filter.radius, filter.radius>>

RECURSIVE input_lines(_)
\* PixelFilter::input_lines, as <<top, bottom>>
input_lines(filter) ==
    IF filter.type = "CombinedFilter"
    THEN IF filter.filters = <<>> THEN <<0, 0>>
         ELSE LET rest == input_lines([filter EXCEPT !.filters = Tail(filter.filters)])
                  first == input_lines(Head(filter.filters))
              IN  <<first[1] + rest[1], first[2] + rest[2]>>
    ELSE IF filter.type = "VerticalKernelFilter" THEN vertical_kernel_input_lines(filter)
    ELSE <<0, 0>>

RECURSIVE extra_columns(_)
\* PixelFilter::extra_columns, as <<left, right>>
extra_columns(filter) ==
    IF filter.type = "CombinedFilter"
    THEN IF filter.filters = <<>> THEN <<0, 0>>
         ELSE LET rest == extra_columns([filter EXCEPT !.filters = Tail(filter.filters)])
                  first == extra_columns(Head(filter.filters))
              IN  <<first[1] + rest[1], first[2] + rest[2]>>
    ELSE IF filter.type = "HorizontalKernelFilter" THEN horizontal_kernel_extra_columns(filter)
    ELSE <<0, 0>>

\* U16LinearTexture::pixel_line: the line when the texture has it
pixel_line(mask, y_pos) == IF y_pos < Len(mask) THEN << <<mask[y_pos + 1]>> >> ELSE <<>>

\* MaskFilter::read_px at a whole position: the alpha of the first line at
\* xpos modulo the length of the line
read_px(xpos, line_pixels_1, line_pixels_2) == line_pixels_1[(xpos % Len(line_pixels_1)) + 1]

\* for (input, output) in input.iter().zip(output.iter_mut()): the pixels of
\* output that have an input pixel are assigned
ZipAssign(input, output, Value(_, _)) ==
    [x \in 1..Len(output) |-> IF x <= Len(input) THEN Value(x - 1, input[x]) ELSE output[x]]

\* AlphaBlendFilter::filter_line
alpha_filter_line(filter, y_pos, input, output_line) ==
    LET Blend(x_pos, input_px) == MulAlpha(input_px, filter.alpha)
    IN  ZipAssign(input[1], output_line, Blend)

\* MaskFilter::filter_line
mask_filter_line(filter, y_pos, input, output_line) ==
    LET mask_y      == y_pos * filter.mult_y
        mask_line_1 == pixel_line(filter.mask, mask_y)
        mask_line_2 == pixel_line(filter.mask, mask_y + 1)
        Masked(x_pos, input_px) ==
            MulAlpha(input_px, read_px(x_pos, mask_line_1[1], mask_line_2[1]))
    IN  IF mask_line_1 # <<>> /\ mask_line_2 # <<>>
        THEN ZipAssign(input[1], output_line, Masked)
        ELSE output_line

\* The filter_line of the filters that a CombinedFilter combines
simple_filter_line(filter, y_pos, input, output_line) ==
    IF filter.type = "AlphaBlendFilter"
    THEN alpha_filter_line(filter, y_pos, input, output_line)
    ELSE mask_filter_line(filter, y_pos, input, output_line)

RECURSIVE MiddleFilters(_, _, _, _, _, _, _)
\* for filter in filters.iter().take(filters.len()-1): every line of output is
\* filtered from next_input, then output and next_output are swapped and
\* next_input is taken from next_output
MiddleFilters(filters, y_pos, width, height, output, next_output, next_input) ==
    IF filters = <<>> THEN [height |-> height, next_input |-> next_input]
    ELSE LET filter   == Head(filters)
             left     == extra_columns(filter)[1]
             right    == extra_columns(filter)[2]
             top      == input_lines(filter)[1]
             bottom   == input_lines(filter)[2]
             filtered == [line \in 1..Len(output) |->
                 IF line <= height - bottom - top
                 THEN LET written == simple_filter_line(filter, y_pos + (line - 1),
                                         SubSeq(next_input, line, line + top + bottom),
                                         SubSeq(output[line], 1, width - left - right))
                      IN  [x \in 1..Len(output[line]) |->
                              IF x <= width - left - right THEN written[x]
                              ELSE output[line][x]]
                 ELSE output[line]]
             new_width  == width - (left + right)
             new_height == height - (top + bottom)
         IN  MiddleFilters(Tail(filters), y_pos, new_width, new_height, next_output,
                 filtered,
                 [idx \in 1..new_height |-> SubSeq(filtered[idx], 1, new_width)])

\* Mutant of combined_filter_line: without filters nothing is copied
combined_filter_line_no_copy(filter, y_pos, input, output_line) ==
    IF Len(filter.filters) = 0
    THEN output_line
    ELSE IF Len(filter.filters) = 1
    THEN simple_filter_line(filter.filters[1], y_pos, input, output_line)
    ELSE LET first  == filter.filters[1]
             width  == Len(input[1])
             height == Len(input)
             output == [line \in 1..(height - input_lines(first)[1] - input_lines(first)[2]) |->
                           [x \in 1..(width - extra_columns(first)[1] - extra_columns(first)[2]) |->
                               DefaultPixel]]
             middle == MiddleFilters(Front(filter.filters), y_pos, width, height,
                                     output, output, input)
         IN  simple_filter_line(Last(filter.filters), y_pos,
                                SubSeq(middle.next_input, 1, middle.height), output_line)

\* CombinedFilter::filter_line
combined_filter_line(filter, y_pos, input, output_line) ==
    IF Len(filter.filters) = 0
    THEN LET Copy(x_pos, input_px) == input_px
         IN  ZipAssign(input[1], output_line, Copy)
    ELSE IF Len(filter.filters) = 1
    THEN simple_filter_line(filter.filters[1], y_pos, input, output_line)
    ELSE LET first  == filter.filters[1]
             width  == Len(input[1])
             height == Len(input)
             output == [line \in 1..(height - input_lines(first)[1] - input_lines(first)[2]) |->
                           [x \in 1..(width - extra_columns(first)[1] - extra_columns(first)[2]) |->
                               DefaultPixel]]
             middle == MiddleFilters(Front(filter.filters), y_pos, width, height,
                                     output, output, input)
         IN  simple_filter_line(Last(filter.filters), y_pos,
                                SubSeq(middle.next_input, 1, middle.height), output_line)

\* PixelFilter::filter_line: the value of output_line after the call
filter_line(filter, y_pos, input, output_line) ==
    IF filter.type = "CombinedFilter"
    THEN combined_filter_line(filter, y_pos, input, output_line)
    ELSE simple_filter_line(filter, y_pos, input, output_line)

\* A filter, and a call about to be made with the lines and columns that
\* input_lines() and extra_columns() ask for
FilterInit ==
    /\ fl_filter \in Filters
    /\ fl_y_pos \in 0..MaxYPos
    /\ \E width \in 1..MaxWidth :
           /\ fl_input_lines \in
                  [1..(1 + input_lines(fl_filter)[1] + input_lines(fl_filter)[2]) ->
                      [1..(width + extra_columns(fl_filter)[1] + extra_columns(fl_filter)[2])
                          -> Pixels]]
           /\ fl_output_line = [x \in 1..width |-> StalePixel]
    /\ fl_pc = "ready"

FilterIdle ==
    /\ fl_filter = [type |-> "CombinedFilter", filters |-> <<>>]
    /\ fl_y_pos = 0
    /\ fl_input_lines = <<<<DefaultPixel>>>>
    /\ fl_output_line = <<StalePixel>>
    /\ fl_pc = "ready"

FilterLine ==
    /\ fl_pc = "ready"
    /\ fl_output_line' = filter_line(fl_filter, fl_y_pos, fl_input_lines, fl_output_line)
    /\ fl_pc' = "done"
    /\ UNCHANGED <<fl_filter, fl_y_pos, fl_input_lines>>

NextFilter ==
    \/ FilterLine /\ UNCHANGED not_fl

\* ------------------------------------------------------------------------
\* U8FrameRenderer::render (render/u8_frame_renderer.rs)
\* ------------------------------------------------------------------------

MaxFrameWidth == 2
MaxFrameHeight == 9

LINES_AT_ONCE == 8

\* TPixel::to_u8_rgba(gamma): the pixel's components scaled to 0..255 (the pixel
\* type is not part of the sources read here; one component stands for the four)
to_u8_rgba(pixel) == (pixel * 255) \div MaxPixel

\* vec![TPixel::default(); self.width*LINES_AT_ONCE] split in chunks of self.width
default_buffer_chunks(width) ==
    [line \in 1..LINES_AT_ONCE |-> [x \in 1..width |-> DefaultPixel]]

\* end_idx without the clamp to self.height
end_idx_unclamped(start_idx, height) == start_idx + LINES_AT_ONCE

\* let end_idx = start_idx + LINES_AT_ONCE;
\* let end_idx = if end_idx > self.height { self.height } else { end_idx };
end_idx_of(start_idx, height) ==
    IF start_idx + LINES_AT_ONCE > height THEN height ELSE start_idx + LINES_AT_ONCE

\* (start_idx..end_idx).map(|idx| idx as f64)
strip_y_positions(start_idx, end_idx) ==
    [idx \in 1..(end_idx - start_idx) |-> start_idx + idx - 1]

\* What a region renderer does with the strip it is given: it draws a scene over
\* the scanlines of the y positions, leaves the buffers as they are (nothing to
\* draw in the region), or aborts.  The renderer is a type parameter of
\* U8FrameRenderer, so any of these can happen in any strip.
RegionOutcomes ==
    [kind : {"scene"}, base : Pixels] \cup [kind : {"nothing", "abort"}, base : {0}]

ScenePixel(base, y_pos, x_idx) == (base + y_pos + x_idx) % (MaxPixel + 1)

\* renderer.render(&y_positions, &mut buffer_chunks)
region_render(outcome, y_positions, buffer_chunks) ==
    IF outcome.kind = "scene"
    THEN [line \in DOMAIN buffer_chunks |->
             IF line <= Len(y_positions)
             THEN [x \in DOMAIN buffer_chunks[line] |->
                      ScenePixel(outcome.base, y_positions[line], x - 1)]
             ELSE buffer_chunks[line]]
    ELSE buffer_chunks

\* chunks[start_idx + y_idx][x_idx] = buffer_chunks[y_idx][x_idx].to_u8_rgba(gamma)
\* for y_idx in 0..(end_idx-start_idx), x_idx in 0..width
write_strip(dest, width, start_idx, end_idx, buffer_chunks) ==
    [i \in 1..Len(dest) |->
        LET row == (i - 1) \div width
            col == (i - 1) % width
        IN  IF row >= start_idx /\ row < end_idx
            THEN to_u8_rgba(buffer_chunks[row - start_idx + 1][col + 1])
            ELSE dest[i]]

\* No conversion yields 1 while MaxPixel < 255, so a pixel of dest that still
\* holds 1 has not been written
FrameRendererInit ==
    /\ fr_width \in 0..MaxFrameWidth
    /\ fr_height \in 0..MaxFrameHeight
    /\ \E len \in 0..((MaxFrameHeight + 1) * MaxFrameWidth) :
           fr_dest = [i \in 1..len |-> 1]
    /\ fr_dest0 = fr_dest
    /\ fr_y_idx = 0
    /\ fr_buffer = <<>>
    /\ fr_calls = <<>>
    /\ fr_handed = <<>>
    /\ fr_rendered = <<>>
    /\ fr_pc = "start"

FrameRendererIdle ==
    /\ fr_width = 0
    /\ fr_height = 0
    /\ fr_dest = <<>>
    /\ fr_dest0 = <<>>
    /\ fr_y_idx = 0
    /\ fr_buffer = <<>>
    /\ fr_calls = <<>>
    /\ fr_handed = <<>>
    /\ fr_rendered = <<>>
    /\ fr_pc = "idle"

\* render(), up to the loop: chunks_exact_mut panics for a chunk size of 0, and
\* render panics when dest has fewer than height rows
RenderBegin ==
    /\ fr_pc = "start"
    /\ IF fr_width = 0 \/ Len(fr_dest) \div fr_width < fr_height
       THEN /\ fr_pc' = "aborted"
            /\ UNCHANGED fr_buffer
       ELSE /\ fr_pc' = "loop"
            /\ fr_buffer' = default_buffer_chunks(fr_width)
    /\ fr_y_idx' = 0
    /\ UNCHANGED <<fr_width, fr_height, fr_dest, fr_dest0, fr_calls, fr_handed,
                   fr_rendered>>

\* if y_idx >= self.height { break; }
RenderBreak ==
    /\ fr_pc = "loop"
    /\ fr_y_idx >= fr_height
    /\ fr_pc' = "returned"
    /\ UNCHANGED <<fr_width, fr_height, fr_dest, fr_dest0, fr_y_idx, fr_buffer,
                   fr_calls, fr_handed, fr_rendered>>

\* One iteration of the loop: render a strip and convert it into dest
RenderStrip ==
    /\ fr_pc = "loop"
    /\ fr_y_idx < fr_height
    /\ \E outcome \in RegionOutcomes :
           LET start_idx == fr_y_idx
               end_idx == end_idx_of(start_idx, fr_height)
               y_positions == strip_y_positions(start_idx, end_idx)
               rendered == region_render(outcome, y_positions, fr_buffer)
           IN  /\ fr_calls' = Append(fr_calls, y_positions)
               /\ fr_handed' = fr_buffer
               /\ IF outcome.kind = "abort"
                  THEN /\ fr_pc' = "aborted"
                       /\ UNCHANGED <<fr_dest, fr_buffer, fr_rendered, fr_y_idx>>
                  ELSE /\ fr_buffer' = rendered
                       /\ fr_rendered' = fr_rendered \o
                              [idx \in 1..(end_idx - start_idx) |-> rendered[idx]]
                       /\ fr_dest' = write_strip(fr_dest, fr_width, start_idx, end_idx,
                                                 rendered)
                       /\ fr_y_idx' = end_idx
                       /\ fr_pc' = "loop"
    /\ UNCHANGED <<fr_width, fr_height, fr_dest0>>

NextFrame ==
    \/ RenderBegin /\ UNCHANGED not_fr
    \/ RenderBreak /\ UNCHANGED not_fr
    \/ RenderStrip /\ UNCHANGED not_fr

\* ------------------------------------------------------------------------
\* PixelProgramCache (pixel_program_cache.rs)
\* ------------------------------------------------------------------------

MaxPrograms == 2
MaxProgramData == 2
MaxScanlineData == 2

\* Program data (a colour, say) and the y positions handed to the programs
ProgramDataValues == Pixels
MinYs == 0..MaxYPos

\* &Vec<PixelProgramScanline>: the y positions of the scanlines
ScanlineLists == {<<>>} \cup {<<y_pos>> : y_pos \in MinYs}

\* PixelProgram::create_scanline_data of program `program`: what it returns is up
\* to the program, so the result is the term of its arguments
program_create_scanline_data(program, min_y, scanlines, program_data) ==
    [program |-> program, min_y |-> min_y, scanlines |-> scanlines,
     program_data |-> program_data]

\* PixelProgram::draw_pixels of program `program`: recorded as the call it is
program_draw_pixels(program, x_range, y_pos, program_data, scanline_data) ==
    [program |-> program, x_range |-> x_range, y_pos |-> y_pos,
     program_data |-> program_data, scanline_data |-> scanline_data]

\* create_associate_program_data(program)(program_data): the closure
\* `move |min_y, scanlines| ...` holding the program and the program data
associate_program_data(program, program_data) ==
    [program |-> program, program_data |-> program_data]

\* The closure above called with (min_y, scanlines): runs the program's
\* create_scanline_data and returns the closure `move |target, x_range, y_pos| ...`
associate_scanline_data(closure, min_y, scanlines) ==
    [program |-> closure.program, program_data |-> closure.program_data,
     scanline_data |-> program_create_scanline_data(closure.program, min_y, scanlines,
                                                    closure.program_data)]

\* The innermost closure called with (target, x_range, y_pos)
run_closure(closure, x_range, y_pos) ==
    program_draw_pixels(closure.program, x_range, y_pos, closure.program_data,
                        closure.scanline_data)

\* add_program: the new StoredPixelProgram
add_program(next_program_id) ==
    [program_id |-> next_program_id, program |-> next_program_id]

\* store_program_data with the new entry put in front of the others
store_program_data_front(program_data, stored_program, data) ==
    [id |-> Len(program_data),
     program_data |->
         <<associate_program_data(stored_program.program, data)>> \o program_data]

\* store_program_data: the id returned and the data cache's program_data after it
store_program_data(program_data, stored_program, data) ==
    [id |-> Len(program_data),
     program_data |->
         Append(program_data, associate_program_data(stored_program.program, data))]

\* create_scanline_data: the id returned and the data cache's scanline_data after it
create_scanline_data(program_data, scanline_data, program_id, min_y, scanlines, program_data_id) ==
    [id |-> Len(scanline_data),
     scanline_data |->
         Append(scanline_data,
                associate_scanline_data(program_data[program_data_id + 1], min_y,
                                        scanlines))]

\* run_program that runs the scanline data created last
run_program_latest(program_data, scanline_data, program_id, x_range, y_pos, program_data_id, scanline_data_id) ==
    run_closure(scanline_data[Len(scanline_data)], x_range, y_pos)

\* run_program: the draw_pixels call it makes
run_program(program_data, scanline_data, program_id, x_range, y_pos, program_data_id, scanline_data_id) ==
    run_closure(scanline_data[scanline_data_id + 1], x_range, y_pos)

ProgramCacheInit ==
    /\ pp_next_program_id = 0
    /\ pp_stored = <<>>
    /\ pp_program_data = <<>>
    /\ pp_scanline_data = <<>>
    /\ pp_store_log = <<>>
    /\ pp_create_log = <<>>
    /\ pp_step_calls = <<>>
    /\ pp_run = <<>>
    /\ pp_drawn = <<>>
    /\ pp_pc = "ready"

ProgramCacheIdle ==
    /\ pp_next_program_id = 0
    /\ pp_stored = <<>>
    /\ pp_program_data = <<>>
    /\ pp_scanline_data = <<>>
    /\ pp_store_log = <<>>
    /\ pp_create_log = <<>>
    /\ pp_step_calls = <<>>
    /\ pp_run = <<>>
    /\ pp_drawn = <<>>
    /\ pp_pc = "idle"

AddProgram ==
    /\ pp_pc = "ready"
    /\ pp_next_program_id < MaxPrograms
    /\ pp_stored' = Append(pp_stored, add_program(pp_next_program_id))
    /\ pp_next_program_id' = pp_next_program_id + 1
    /\ UNCHANGED <<pp_program_data, pp_scanline_data, pp_store_log, pp_create_log,
                   pp_step_calls, pp_run, pp_drawn, pp_pc>>

StoreProgramData ==
    /\ pp_pc = "ready"
    /\ Len(pp_program_data) < MaxProgramData
    /\ \E idx \in DOMAIN pp_stored, data \in ProgramDataValues :
           LET result == store_program_data(pp_program_data, pp_stored[idx], data)
           IN  /\ pp_program_data' = result.program_data
               /\ pp_store_log' = Append(pp_store_log,
                      [program |-> pp_stored[idx].program, data |-> data,
                       before |-> Len(pp_program_data), id |-> result.id])
    /\ UNCHANGED <<pp_next_program_id, pp_stored, pp_scanline_data, pp_create_log,
                   pp_step_calls, pp_run, pp_drawn, pp_pc>>

\* data_cache.program_data[program_data.0] panics for an id that was never returned
CreateScanlineData ==
    /\ pp_pc = "ready"
    /\ Len(pp_scanline_data) < MaxScanlineData
    /\ \E program_id \in 0..(MaxPrograms - 1), min_y \in MinYs,
          scanlines \in ScanlineLists, program_data_id \in 0..(MaxProgramData - 1) :
           IF program_data_id >= Len(pp_program_data)
           THEN /\ pp_pc' = "aborted"
                /\ UNCHANGED <<pp_scanline_data, pp_create_log, pp_step_calls>>
           ELSE LET result == create_scanline_data(pp_program_data, pp_scanline_data,
                                  program_id, min_y, scanlines, program_data_id)
                    closure == result.scanline_data[Len(result.scanline_data)]
                IN  /\ pp_scanline_data' = result.scanline_data
                    /\ pp_create_log' = Append(pp_create_log,
                           [program_data |-> program_data_id, min_y |-> min_y,
                            scanlines |-> scanlines,
                            before |-> Len(pp_scanline_data), id |-> result.id,
                            step |-> Len(pp_step_calls) + 1])
                    /\ pp_step_calls' = Append(pp_step_calls, closure.scanline_data)
                    /\ pp_pc' = "ready"
    /\ UNCHANGED <<pp_next_program_id, pp_stored, pp_program_data, pp_store_log,
                   pp_run, pp_drawn>>

\* data_cache.scanline_data[scanline_data.0] panics for an id that was never returned
RunProgram ==
    /\ pp_pc = "ready"
    /\ \E program_id \in 0..(MaxPrograms - 1), y_pos \in MinYs,
          program_data_id \in 0..(MaxProgramData - 1),
          scanline_data_id \in 0..(MaxScanlineData - 1) :
           /\ pp_run' = <<[program_id |-> program_id, x_range |-> <<0, BufWidth>>,
                           y_pos |-> y_pos, program_data |-> program_data_id,
                           scanline_data |-> scanline_data_id]>>
           /\ IF scanline_data_id >= Len(pp_scanline_data)
              THEN /\ pp_pc' = "aborted"
                   /\ pp_drawn' = <<>>
              ELSE /\ pp_drawn' = <<run_program(pp_program_data, pp_scanline_data,
                                       program_id, <<0, BufWidth>>, y_pos,
                                       program_data_id, scanline_data_id)>>
                   /\ pp_pc' = "ready"
    /\ UNCHANGED <<pp_next_program_id, pp_stored, pp_program_data, pp_scanline_data,
                   pp_store_log, pp_create_log, pp_step_calls>>

NextProgramCache ==
    \/ AddProgram /\ UNCHANGED not_pp
    \/ StoreProgramData /\ UNCHANGED not_pp
    \/ CreateScanlineData /\ UNCHANGED not_pp
    \/ RunProgram /\ UNCHANGED not_pp

\* ------------------------------------------------------------------------
\* EdgePlan::prepare_to_render with the multithreading feature
\* ------------------------------------------------------------------------

\* The edges of a plan of which the first `prepared` were prepared by an earlier
\* prepare_to_render and the others were added after it
PlanEdges(new_edges, prepared) ==
    [idx \in 1..Len(new_edges) |->
        IF idx <= prepared
        THEN LET edge == edge_prepare_to_render(new_edges[idx])
             IN  [edge     |-> edge,
                  y_bounds |-> <<bounding_box(edge)[1][2], bounding_box(edge)[2][2]>>]
        ELSE [edge |-> new_edges[idx], y_bounds |-> <<F64_MIN, F64_MAX>>]]

\* The plans the model starts from: stroke edges of at most one sub-path
StrokeEdges ==
    {new_edge("LineStrokeEdge", 0, strokes) :
        strokes \in {<<>>} \cup {<<subpath>> : subpath \in StrokedSubpaths}}

EdgeLists == UNION {[1..n -> StrokeEdges] : n \in 0..MaxEdges}

ParPrepareInit ==
    /\ \E new_edges \in EdgeLists : \E prepared \in 0..Len(new_edges) :
           /\ mp_edges = PlanEdges(new_edges, prepared)
           /\ mp_max_prepared = prepared
           /\ mp_edge_space = space_from_data(SubSeq(mp_edges, 1, prepared))
           /\ mp_task = [idx \in 1..Len(new_edges) |-> "idle"]
    /\ mp_edges0 = mp_edges
    /\ mp_edge_space0 = mp_edge_space
    /\ mp_max_prepared0 = mp_max_prepared
    /\ mp_pc = "ready"

ParPrepareIdle ==
    /\ mp_edges = <<>>
    /\ mp_edge_space = <<>>
    /\ mp_max_prepared = 0
    /\ mp_task = <<>>
    /\ mp_edges0 = <<>>
    /\ mp_edge_space0 = <<>>
    /\ mp_max_prepared0 = 0
    /\ mp_pc = "idle"

\* for_each returns although closures are still running
for_each_returned_early(task) == TRUE

\* par_iter_mut().for_each(...) returns when the closure has run for every edge
for_each_returned(task) == \A idx \in DOMAIN task : task[idx] \in {"idle", "done"}

\* if self.max_prepared != self.edges.len() { self.edges.par_iter_mut()
\*     .skip(self.max_prepared).for_each(...)
ParPrepareBegin ==
    /\ mp_pc = "ready"
    /\ IF mp_max_prepared # Len(mp_edges)
       THEN /\ mp_task' = [idx \in DOMAIN mp_task |->
                              IF idx > mp_max_prepared THEN "todo" ELSE "idle"]
            /\ mp_pc' = "forked"
       ELSE /\ mp_pc' = "returned"
            /\ UNCHANGED mp_task
    /\ UNCHANGED <<mp_edges, mp_edge_space, mp_max_prepared, mp_edges0, mp_edge_space0,
                   mp_max_prepared0>>

\* edge.edge.prepare_to_render(), in the closure of one edge
ParEdgePrepare ==
    /\ mp_pc = "forked"
    /\ \E idx \in DOMAIN mp_task :
           /\ mp_task[idx] = "todo"
           /\ mp_edges' = [mp_edges EXCEPT
                  ![idx].edge = edge_prepare_to_render(mp_edges[idx].edge)]
           /\ mp_task' = [mp_task EXCEPT ![idx] = "prepared"]
    /\ UNCHANGED <<mp_edge_space, mp_max_prepared, mp_edges0, mp_edge_space0,
                   mp_max_prepared0, mp_pc>>

\* let ((_, min_y), (_, max_y)) = edge.edge.bounding_box();
\* edge.y_bounds = min_y..max_y, in the closure of one edge
ParEdgeBounds ==
    /\ mp_pc = "forked"
    /\ \E idx \in DOMAIN mp_task :
           /\ mp_task[idx] = "prepared"
           /\ mp_edges' = [mp_edges EXCEPT
                  ![idx].y_bounds = <<bounding_box(mp_edges[idx].edge)[1][2],
                                      bounding_box(mp_edges[idx].edge)[2][2]>>]
           /\ mp_task' = [mp_task EXCEPT ![idx] = "done"]
    /\ UNCHANGED <<mp_edge_space, mp_max_prepared, mp_edges0, mp_edge_space0,
                   mp_max_prepared0, mp_pc>>

\* self.max_prepared = self.edges.len();
\* self.edge_space = Space1D::from_data(...)
ParPrepareJoin ==
    /\ mp_pc = "forked"
    /\ for_each_returned(mp_task)
    /\ mp_max_prepared' = Len(mp_edges)
    /\ mp_edge_space' = space_from_data(mp_edges)
    /\ mp_pc' = "returned"
    /\ UNCHANGED <<mp_edges, mp_task, mp_edges0, mp_edge_space0, mp_max_prepared0>>

NextParPrepare ==
    \/ ParPrepareBegin /\ UNCHANGED not_mp
    \/ ParEdgePrepare /\ UNCHANGED not_mp
    \/ ParEdgeBounds /\ UNCHANGED not_mp
    \/ ParPrepareJoin /\ UNCHANGED not_mp

\* ------------------------------------------------------------------------
\* CombinedFilter::filter_line with two or more filters: the buffers
\* ------------------------------------------------------------------------

\* The filters of a chain
ChainFilters == {[type |-> "AlphaBlendFilter", alpha |-> MaxPixel]} \cup KernelFilters

FilterChains == UNION {[1..n -> ChainFilters] : n \in 2..MaxChain}

\* vec![vec![TPixel::default(); columns]; lines]
new_buffer(lines, columns) == [line \in 1..lines |-> columns]

\* &lines[from..to] is in range
slice_in_range(lines, from, to) == from <= to /\ to <= Len(lines)

\* The filter_line calls of one filter of the loop, one for each output_line
\* of 0..(height-bottom-top)
middle_calls(idx, filter, y_pos, width, height, next_input) ==
    LET top    == input_lines(filter)[1]
        bottom == input_lines(filter)[2]
        left   == extra_columns(filter)[1]
        right  == extra_columns(filter)[2]
    IN  [output_line \in 1..(height - bottom - top) |->
            [filter  |-> idx,
             line    |-> output_line - 1,
             y_pos   |-> y_pos + (output_line - 1),
             input   |-> SubSeq(next_input, output_line, output_line + top + bottom),
             output  |-> width - left - right]]

\* The indexes of one filter of the loop are in range: next_input and output
\* in the loop, next_output when next_input is regenerated
middle_in_range(filter, width, height, output, next_input) ==
    LET top    == input_lines(filter)[1]
        bottom == input_lines(filter)[2]
        left   == extra_columns(filter)[1]
        right  == extra_columns(filter)[2]
    IN  /\ height - bottom - top >= 0
        /\ \A output_line \in 0..(height - bottom - top - 1) :
               /\ slice_in_range(next_input, output_line, output_line + 1 + top + bottom)
               /\ output_line < Len(output)
               /\ width - left - right >= 0
               /\ width - left - right <= output[output_line + 1]
        /\ width - (left + right) >= 0
        /\ height - (top + bottom) >= 0
        /\ \A idx \in 0..(height - (top + bottom) - 1) :
               /\ idx < Len(output)
               /\ width - (left + right) <= output[idx + 1]

\* Mutant of middle_next_input: the lines keep the width of the buffer
middle_next_input_unsliced(filter, width, height, output) ==
    [idx \in 1..(height - (input_lines(filter)[1] + input_lines(filter)[2])) |-> output[idx]]

\* next_input = (0..height).map(|idx| &next_output[idx][0..width]), for the
\* updated width and height and the buffer that was written
middle_next_input(filter, width, height, output) ==
    [idx \in 1..(height - (input_lines(filter)[1] + input_lines(filter)[2])) |->
        width - (extra_columns(filter)[1] + extra_columns(filter)[2])]

\* A chain, and a call about to be made with the lines and columns that
\* input_lines() and extra_columns() of the CombinedFilter ask for
CombinedLineInit ==
    /\ cf_filters \in FilterChains
    /\ cf_y_pos \in 0..MaxYPos
    /\ cf_output_line \in 1..MaxWidth
    /\ LET combined == [type |-> "CombinedFilter", filters |-> cf_filters]
       IN  cf_input_lines =
               new_buffer(1 + input_lines(combined)[1] + input_lines(combined)[2],
                          cf_output_line + extra_columns(combined)[1] + extra_columns(combined)[2])
    /\ cf_width = 0
    /\ cf_height = 0
    /\ cf_output = <<>>
    /\ cf_next_output = <<>>
    /\ cf_next_input = <<>>
    /\ cf_done = 0
    /\ cf_calls = <<>>
    /\ cf_panicked = FALSE
    /\ cf_pc = "ready"

CombinedLineIdle ==
    /\ cf_filters = <<>>
    /\ cf_y_pos = 0
    /\ cf_input_lines = <<>>
    /\ cf_output_line = 0
    /\ cf_width = 0
    /\ cf_height = 0
    /\ cf_output = <<>>
    /\ cf_next_output = <<>>
    /\ cf_next_input = <<>>
    /\ cf_done = 0
    /\ cf_calls = <<>>
    /\ cf_panicked = FALSE
    /\ cf_pc = "done"

\* The buffers are allocated for the output of the first filter
CombinedBuffers ==
    /\ cf_pc = "ready"
    /\ LET first_left   == extra_columns(cf_filters[1])[1]
           first_right  == extra_columns(cf_filters[1])[2]
           first_top    == input_lines(cf_filters[1])[1]
           first_bottom == input_lines(cf_filters[1])[2]
           width        == cf_input_lines[1]
           height       == Len(cf_input_lines)
       IN  IF width - first_left - first_right < 0 \/ height - first_top - first_bottom < 0
           THEN /\ cf_panicked' = TRUE
                /\ cf_pc' = "done"
                /\ UNCHANGED <<cf_width, cf_height, cf_output, cf_next_output, cf_next_input>>
           ELSE /\ cf_width' = width
                /\ cf_height' = height
                /\ cf_output' = new_buffer(height - first_top - first_bottom,
                                           width - first_left - first_right)
                /\ cf_next_output' = cf_output'
                /\ cf_next_input' = cf_input_lines
                /\ cf_panicked' = FALSE
                /\ cf_pc' = "middle"
    /\ UNCHANGED <<cf_filters, cf_y_pos, cf_input_lines, cf_output_line, cf_done, cf_calls>>

\* One filter of the loop over all filters but the last
CombinedMiddle ==
    /\ cf_pc = "middle"
    /\ cf_done < Len(cf_filters) - 1
    /\ LET filter == cf_filters[cf_done + 1]
       IN  IF ~middle_in_range(filter, cf_width, cf_height, cf_output, cf_next_input)
           THEN /\ cf_panicked' = TRUE
                /\ cf_pc' = "done"
                /\ UNCHANGED <<cf_width, cf_height, cf_output, cf_next_output, cf_next_input,
                               cf_done, cf_calls>>
           ELSE /\ cf_calls' = cf_calls \o middle_calls(cf_done + 1, filter, cf_y_pos, cf_width, cf_height,
                                                        cf_next_input)
                /\ cf_width' = cf_width - (extra_columns(filter)[1] + extra_columns(filter)[2])
                /\ cf_height' = cf_height - (input_lines(filter)[1] + input_lines(filter)[2])
                /\ cf_output' = cf_next_output
                /\ cf_next_output' = cf_output
                /\ cf_next_input' = middle_next_input(filter, cf_width, cf_height, cf_output)
                /\ cf_done' = cf_done + 1
                /\ UNCHANGED <<cf_panicked, cf_pc>>
    /\ UNCHANGED <<cf_filters, cf_y_pos, cf_input_lines, cf_output_line>>

\* The last filter writes to the output line
CombinedLast ==
    /\ cf_pc = "middle"
    /\ cf_done = Len(cf_filters) - 1
    /\ IF ~slice_in_range(cf_next_input, 0, cf_height)
       THEN /\ cf_panicked' = TRUE
            /\ UNCHANGED <<cf_calls, cf_done>>
       ELSE /\ cf_calls' = Append(cf_calls, [filter |-> Len(cf_filters),
                                             line   |-> 0,
                                             y_pos  |-> cf_y_pos,
                                             input  |-> SubSeq(cf_next_input, 1, cf_height),
                                             output |-> cf_output_line])
            /\ cf_done' = cf_done + 1
            /\ UNCHANGED cf_panicked
    /\ cf_pc' = "done"
    /\ UNCHANGED <<cf_filters, cf_y_pos, cf_input_lines, cf_output_line, cf_width, cf_height, cf_output,
                   cf_next_output, cf_next_input>>

NextCombinedLine ==
    \/ CombinedBuffers /\ UNCHANGED not_cf
    \/ CombinedMiddle /\ UNCHANGED not_cf
    \/ CombinedLast /\ UNCHANGED not_cf

\* ------------------------------------------------------------------------
\* flo_draw_scene_context
\* ------------------------------------------------------------------------

\* Bounds of the scene context model
MaxThreads == 3

MaxSceneCalls == 2

Threads == 1..MaxThreads

\* static ref DRAW_SCENE_CONTEXT = Mutex::new(None), and no thread in a call
SceneContextInit ==
    /\ sc_context = <<>>
    /\ sc_mutex = 0
    /\ sc_scenes = 0
    /\ sc_sent = <<>>
    /\ sc_new_context = [thread \in Threads |-> 0]
    /\ sc_returned = [thread \in Threads |-> <<>>]
    /\ sc_pc = [thread \in Threads |-> "idle"]

SceneContextIdle == SceneContextInit

\* Mutant of mutex_free: the lock is given to every thread that asks
mutex_always_free(mutex) == TRUE

\* Mutex::lock gives the lock when no thread holds it
mutex_free(mutex) == mutex = 0

\* A thread calls flo_draw_scene_context
scene_call(thread) ==
    /\ sc_pc[thread] = "idle"
    /\ Len(sc_returned[thread]) < MaxSceneCalls
    /\ sc_pc' = [sc_pc EXCEPT ![thread] = "lock"]
    /\ UNCHANGED <<sc_context, sc_mutex, sc_scenes, sc_sent, sc_new_context, sc_returned>>

\* let mut context = DRAW_SCENE_CONTEXT.lock().unwrap(): the thread waits
\* until it is given the lock
scene_lock(thread) ==
    /\ sc_pc[thread] = "lock"
    /\ mutex_free(sc_mutex)
    /\ sc_mutex' = thread
    /\ sc_pc' = [sc_pc EXCEPT ![thread] = "is_none"]
    /\ UNCHANGED <<sc_context, sc_scenes, sc_sent, sc_new_context, sc_returned>>

\* if context.is_none()
scene_is_none(thread) ==
    /\ sc_pc[thread] = "is_none"
    /\ sc_pc' = [sc_pc EXCEPT ![thread] = IF sc_context = <<>> THEN "scene" ELSE "unwrap"]
    /\ UNCHANGED <<sc_context, sc_mutex, sc_scenes, sc_sent, sc_new_context, sc_returned>>

\* let scene = Scene::default(); let new_context = scene.context()
scene_default(thread) ==
    /\ sc_pc[thread] = "scene"
    /\ sc_scenes' = sc_scenes + 1
    /\ sc_new_context' = [sc_new_context EXCEPT ![thread] = sc_scenes + 1]
    /\ sc_pc' = [sc_pc EXCEPT ![thread] = "send_event"]
    /\ UNCHANGED <<sc_context, sc_mutex, sc_sent, sc_returned>>

\* glutin_thread().send_event(GlutinThreadEvent::RunProcess(scene.run()))
scene_send_event(thread) ==
    /\ sc_pc[thread] = "send_event"
    /\ sc_sent' = Append(sc_sent, sc_new_context[thread])
    /\ sc_pc' = [sc_pc EXCEPT ![thread] = "store"]
    /\ UNCHANGED <<sc_context, sc_mutex, sc_scenes, sc_new_context, sc_returned>>

\* *context = Some(new_context)
scene_store(thread) ==
    /\ sc_pc[thread] = "store"
    /\ sc_context' = << sc_new_context[thread] >>
    /\ sc_new_context' = [sc_new_context EXCEPT ![thread] = 0]
    /\ sc_pc' = [sc_pc EXCEPT ![thread] = "unwrap"]
    /\ UNCHANGED <<sc_mutex, sc_scenes, sc_sent, sc_returned>>

\* context.as_ref().unwrap().clone() is returned and the guard is dropped: a
\* guard taken while another thread held the lock releases that lock
scene_unwrap(thread) ==
    /\ sc_pc[thread] = "unwrap"
    /\ sc_returned' = [sc_returned EXCEPT ![thread] = Append(@, sc_context[1])]
    /\ sc_mutex' = 0
    /\ sc_pc' = [sc_pc EXCEPT ![thread] = "idle"]
    /\ UNCHANGED <<sc_context, sc_scenes, sc_sent, sc_new_context>>

SceneCall == \E thread \in Threads : scene_call(thread)

SceneLock == \E thread \in Threads : scene_lock(thread)

SceneIsNone == \E thread \in Threads : scene_is_none(thread)

SceneDefault == \E thread \in Threads : scene_default(thread)

SceneSendEvent == \E thread \in Threads : scene_send_event(thread)

SceneStore == \E thread \in Threads : scene_store(thread)

SceneUnwrap == \E thread \in Threads : scene_unwrap(thread)

NextSceneContext ==
    \/ SceneCall /\ UNCHANGED not_sc
    \/ SceneLock /\ UNCHANGED not_sc
    \/ SceneIsNone /\ UNCHANGED not_sc
    \/ SceneDefault /\ UNCHANGED not_sc
    \/ SceneSendEvent /\ UNCHANGED not_sc
    \/ SceneStore /\ UNCHANGED not_sc
    \/ SceneUnwrap /\ UNCHANGED not_sc

\* ------------------------------------------------------------------------
\* FilteredScanlineProgram::draw_pixels: the cache of scanline plans
\* ------------------------------------------------------------------------

\* Bounds of the filtered scanline model
MaxRenderThreads == 2

MaxDrawCalls == 1

MaxScale == 2

MaxPixelWidth == 2

MaxRow == 1

RenderThreads == 1..MaxRenderThreads

\* ScanlineTransform: source x = offset + pixel x * scale, for a width in pixels
ScanlineTransforms == [offset : {0}, scale : 1..MaxScale, width : 1..MaxPixelWidth]

NoTransform == [offset |-> 0, scale |-> 1, width |-> 0]

width_in_pixels(transform) == transform.width

pixel_x_to_source_x(transform, pixel_x) == transform.offset + pixel_x * transform.scale

fractional_pixel_x_to_source_x(transform, pixel_x) == transform.offset + pixel_x * transform.scale

source_x_to_pixels(transform, source_x) == (source_x - transform.offset) \div transform.scale

\* ScanlineTransform::transform: the transform after a scale and a translation
transform_by(transform, scale, translate) ==
    [offset |-> transform.offset * scale + translate,
     scale  |-> transform.scale * scale,
     width  |-> transform.width]

\* FilteredScanlineData::new: the scale and the translation of the sprite
data_scale == <<1, 1>>

data_translate == <<0, 0>>

\* data.edges: a rectangle of the sprite
data_edges == [min_x |-> 0, max_x |-> MaxPixelWidth * MaxScale, min_y |-> 0, max_y |-> MaxRow * MaxScale + 1]

\* The filters of the data
ScanlineFilters == {[type |-> "AlphaBlendFilter", alpha |-> MaxPixel]} \cup KernelFilters

\* ScanPlanner::plan_scanlines for one y position: the spans of the edges
\* inside x_range, in pixels of the transform
plan_scanlines(edges, transform, y_pos, x_range) ==
    LET from == IF edges.min_x > x_range[1] THEN edges.min_x ELSE x_range[1]
        to   == IF edges.max_x < x_range[2] THEN edges.max_x ELSE x_range[2]
    IN  IF y_pos >= edges.min_y /\ y_pos < edges.max_y /\ from < to
        THEN << [start |-> source_x_to_pixels(transform, from),
                 end   |-> source_x_to_pixels(transform, to)] >>
        ELSE <<>>

\* let pixel_ypos = x_transform.source_x_to_pixels(y_pos) + y_offset
pixel_ypos_of(x_transform, y_pos, y_offset) == source_x_to_pixels(x_transform, y_pos) + y_offset

\* The plan of the else branch: the scanline at pixel_ypos planned with the
\* transform and the x-range of the call
new_scanline(filter, x_transform, pixel_ypos) ==
    LET before_x       == extra_columns(filter)[1]
        after_x        == extra_columns(filter)[2]
        scan_transform == transform_by(x_transform, data_scale[1], data_translate[1])
        ypos           == fractional_pixel_x_to_source_x(x_transform, pixel_ypos)
        scan_ypos      == ypos * data_scale[2] + data_translate[2]
        scan_xrange    == <<pixel_x_to_source_x(scan_transform, 0 - before_x),
                            pixel_x_to_source_x(scan_transform,
                                                width_in_pixels(x_transform) + after_x)>>
    IN  plan_scanlines(data_edges, scan_transform, scan_ypos, scan_xrange)

\* HashMap::insert
map_insert(map, key, value) ==
    [k \in (DOMAIN map) \cup {key} |-> IF k = key THEN value ELSE map[k]]

\* RwLock::read is given when no thread holds the write guard
read_free(writer) == writer = 0

\* RwLock::write is given when no thread holds a guard
write_free(readers, writer) == writer = 0 /\ readers = {}

\* Mutant of readers_after_drop: the read guard is kept
readers_after_no_drop(readers, thread) == readers

\* mem::drop(scanlines)
readers_after_drop(readers, thread) == readers \ {thread}

\* FilteredScanlineData::new with an empty cache, and no thread in a call
FilteredScanlineNew ==
    /\ fs_filter \in ScanlineFilters
    /\ fs_scanlines = <<>>
    /\ fs_readers = {}
    /\ fs_writer = 0
    /\ fs_x_transform = [thread \in RenderThreads |-> NoTransform]
    /\ fs_y_pos = [thread \in RenderThreads |-> 0]
    /\ fs_y_offset = [thread \in RenderThreads |-> 0]
    /\ fs_new_scanline = [thread \in RenderThreads |-> <<>>]
    /\ fs_render_scanlines = [thread \in RenderThreads |-> <<>>]
    /\ fs_requested = {}
    /\ fs_inserted = 0
    /\ fs_calls = [thread \in RenderThreads |-> 0]
    /\ fs_pc = [thread \in RenderThreads |-> "idle"]

\* Calls with any x-transform
FilteredScanlineInit ==
    /\ fs_transforms = ScanlineTransforms
    /\ FilteredScanlineNew

\* The calls of one render: all with the x-transform of the frame
ScanlineRenderInit ==
    /\ \E x_transform \in ScanlineTransforms : fs_transforms = {x_transform}
    /\ FilteredScanlineNew

FilteredScanlineIdle ==
    /\ fs_transforms = {}
    /\ fs_filter = [type |-> "AlphaBlendFilter", alpha |-> MaxPixel]
    /\ fs_scanlines = <<>>
    /\ fs_readers = {}
    /\ fs_writer = 0
    /\ fs_x_transform = [thread \in RenderThreads |-> NoTransform]
    /\ fs_y_pos = [thread \in RenderThreads |-> 0]
    /\ fs_y_offset = [thread \in RenderThreads |-> 0]
    /\ fs_new_scanline = [thread \in RenderThreads |-> <<>>]
    /\ fs_render_scanlines = [thread \in RenderThreads |-> <<>>]
    /\ fs_requested = {}
    /\ fs_inserted = 0
    /\ fs_calls = [thread \in RenderThreads |-> 0]
    /\ fs_pc = [thread \in RenderThreads |-> "idle"]

\* draw_pixels is called for a row of pixels of the frame
draw_pixels(thread, x_transform, row) ==
    /\ fs_pc[thread] = "idle"
    /\ fs_calls[thread] < MaxDrawCalls
    /\ fs_x_transform' = [fs_x_transform EXCEPT ![thread] = x_transform]
    /\ fs_y_pos' = [fs_y_pos EXCEPT ![thread] = pixel_x_to_source_x(x_transform, row)]
    /\ fs_y_offset' = [fs_y_offset EXCEPT ![thread] = 0 - input_lines(fs_filter)[1]]
    /\ fs_render_scanlines' = [fs_render_scanlines EXCEPT ![thread] = <<>>]
    /\ fs_pc' = [fs_pc EXCEPT ![thread] = "read"]
    /\ UNCHANGED <<fs_transforms, fs_filter, fs_scanlines, fs_readers, fs_writer,
                   fs_new_scanline, fs_requested, fs_inserted, fs_calls>>

\* let scanlines = data.scanlines.read().unwrap()
scanlines_read(thread) ==
    /\ fs_pc[thread] = "read"
    /\ read_free(fs_writer)
    /\ fs_readers' = fs_readers \cup {thread}
    /\ fs_pc' = [fs_pc EXCEPT ![thread] = "get"]
    /\ UNCHANGED <<fs_transforms, fs_filter, fs_scanlines, fs_writer, fs_x_transform, fs_y_pos,
                   fs_y_offset, fs_new_scanline, fs_render_scanlines, fs_requested,
                   fs_inserted, fs_calls>>

\* The closure has returned the scanline of y_offset: the next y_offset, or
\* the call is finished after after_y
NextScanline(thread) ==
    IF fs_y_offset[thread] < input_lines(fs_filter)[2]
    THEN /\ fs_y_offset' = [fs_y_offset EXCEPT ![thread] = @ + 1]
         /\ fs_pc' = [fs_pc EXCEPT ![thread] = "read"]
         /\ UNCHANGED fs_calls
    ELSE /\ fs_pc' = [fs_pc EXCEPT ![thread] = "idle"]
         /\ fs_calls' = [fs_calls EXCEPT ![thread] = @ + 1]
         /\ UNCHANGED fs_y_offset

\* if let Some(existing_scanline) = scanlines.get(&pixel_ypos.to_bits())
scanlines_get(thread) ==
    /\ fs_pc[thread] = "get"
    /\ LET pixel_ypos == pixel_ypos_of(fs_x_transform[thread], fs_y_pos[thread],
                                       fs_y_offset[thread])
       IN  /\ fs_requested' = fs_requested \cup {pixel_ypos}
           /\ IF pixel_ypos \in DOMAIN fs_scanlines
              THEN /\ fs_render_scanlines' =
                          [fs_render_scanlines EXCEPT ![thread] =
                              Append(@, [pixel_ypos |-> pixel_ypos,
                                         plan |-> fs_scanlines[pixel_ypos]])]
                   /\ fs_readers' = fs_readers \ {thread}
                   /\ NextScanline(thread)
              ELSE /\ fs_readers' = readers_after_drop(fs_readers, thread)
                   /\ fs_pc' = [fs_pc EXCEPT ![thread] = "plan"]
                   /\ UNCHANGED <<fs_render_scanlines, fs_y_offset, fs_calls>>
    /\ UNCHANGED <<fs_transforms, fs_filter, fs_scanlines, fs_writer, fs_x_transform, fs_y_pos,
                   fs_new_scanline, fs_inserted>>

\* self.planner.plan_scanlines(&*data.edges, &scan_transform, &[scan_ypos], scan_xrange, ..)
scanlines_plan(thread) ==
    /\ fs_pc[thread] = "plan"
    /\ fs_new_scanline' =
           [fs_new_scanline EXCEPT ![thread] =
               new_scanline(fs_filter, fs_x_transform[thread],
                            pixel_ypos_of(fs_x_transform[thread], fs_y_pos[thread],
                                          fs_y_offset[thread]))]
    /\ fs_pc' = [fs_pc EXCEPT ![thread] = "write"]
    /\ UNCHANGED <<fs_transforms, fs_filter, fs_scanlines, fs_readers, fs_writer,
                   fs_x_transform, fs_y_pos, fs_y_offset, fs_render_scanlines, fs_requested,
                   fs_inserted, fs_calls>>

\* let mut scanlines = data.scanlines.write().unwrap()
scanlines_write(thread) ==
    /\ fs_pc[thread] = "write"
    /\ write_free(fs_readers, fs_writer)
    /\ fs_writer' = thread
    /\ fs_pc' = [fs_pc EXCEPT ![thread] = "insert"]
    /\ UNCHANGED <<fs_transforms, fs_filter, fs_scanlines, fs_readers, fs_x_transform, fs_y_pos,
                   fs_y_offset, fs_new_scanline, fs_render_scanlines, fs_requested,
                   fs_inserted, fs_calls>>

\* scanlines.insert(pixel_ypos.to_bits(), new_scanline.clone()); new_scanline
scanlines_insert(thread) ==
    /\ fs_pc[thread] = "insert"
    /\ LET pixel_ypos == pixel_ypos_of(fs_x_transform[thread], fs_y_pos[thread],
                                       fs_y_offset[thread])
       IN  /\ fs_scanlines' = map_insert(fs_scanlines, pixel_ypos, fs_new_scanline[thread])
           /\ fs_render_scanlines' =
                  [fs_render_scanlines EXCEPT ![thread] =
                      Append(@, [pixel_ypos |-> pixel_ypos, plan |-> fs_new_scanline[thread]])]
    /\ fs_inserted' = fs_inserted + 1
    /\ fs_writer' = 0
    /\ NextScanline(thread)
    /\ UNCHANGED <<fs_transforms, fs_filter, fs_readers, fs_x_transform, fs_y_pos,
                   fs_new_scanline, fs_requested>>

DrawPixels ==
    \E thread \in RenderThreads, x_transform \in fs_transforms, row \in 0..MaxRow :
        draw_pixels(thread, x_transform, row)

ScanlinesRead == \E thread \in RenderThreads : scanlines_read(thread)

ScanlinesGet == \E thread \in RenderThreads : scanlines_get(thread)

ScanlinesPlan == \E thread \in RenderThreads : scanlines_plan(thread)

ScanlinesWrite == \E thread \in RenderThreads : scanlines_write(thread)

ScanlinesInsert == \E thread \in RenderThreads : scanlines_insert(thread)

NextFilteredScanline ==
    \/ DrawPixels /\ UNCHANGED not_fs
    \/ ScanlinesRead /\ UNCHANGED not_fs
    \/ ScanlinesGet /\ UNCHANGED not_fs
    \/ ScanlinesPlan /\ UNCHANGED not_fs
    \/ ScanlinesWrite /\ UNCHANGED not_fs
    \/ ScanlinesInsert /\ UNCHANGED not_fs

\* ------------------------------------------------------------------------
\* DrawingState::sprite_transform
\* ------------------------------------------------------------------------

\* Bounds of the sprite transform model
MaxTranslate == 1

MaxScaleBy == 2

MaxEntry == 4

\* canvas::Transform2D: a matrix of three rows
Transform2D_identity == << <<1, 0, 0>>, <<0, 1, 0>>, <<0, 0, 1>> >>

Transform2D_translate(x, y) == << <<1, 0, x>>, <<0, 1, y>>, <<0, 0, 1>> >>

Transform2D_scale(x, y) == << <<x, 0, 0>>, <<0, y, 0>>, <<0, 0, 1>> >>

\* Transform2D::rotate_degrees for a multiple of a quarter turn
Transform2D_rotate_degrees(theta) ==
    LET cos == CASE theta = 0 -> 1 [] theta = 90 -> 0 [] theta = 180 -> 0 - 1 [] OTHER -> 0
        sin == CASE theta = 0 -> 0 [] theta = 90 -> 1 [] theta = 180 -> 0 [] OTHER -> 0 - 1
    IN  << <<cos, 0 - sin, 0>>, <<sin, cos, 0>>, <<0, 0, 1>> >>

\* Transform2D * Transform2D
Transform2D_mul(a, b) ==
    [row \in 1..3 |-> [col \in 1..3 |->
        a[row][1] * b[1][col] + a[row][2] * b[2][col] + a[row][3] * b[3][col]]]

\* canvas::SpriteTransform, the argument of sprite_transform
CanvasSpriteTransforms ==
    {[op |-> "Identity"]}
    \cup [op : {"Translate"}, x : 0..MaxTranslate, y : 0..MaxTranslate]
    \cup [op : {"Scale"}, x : 1..MaxScaleBy, y : 1..MaxScaleBy]
    \cup [op : {"Rotate"}, theta : {0, 90, 180, 270}]
    \cup [op : {"Transform2D"}, matrix : {Transform2D_identity, Transform2D_scale(MaxScaleBy, 1)}]

\* SpriteTransform::matrix
matrix(current) ==
    IF current.kind = "ScaleTransform"
    THEN Transform2D_mul(
             Transform2D_scale(current.scale[1], current.scale[2]),
             Transform2D_translate(current.translate[1], current.translate[2]))
    ELSE current.matrix

\* DrawingState::sprite_transform: the value of self.sprite_transform after the call
sprite_transform(transform, current) ==
    IF transform.op = "Identity"
    THEN [kind |-> "ScaleTransform", scale |-> <<1, 1>>, translate |-> <<0, 0>>]
    ELSE IF transform.op = "Translate" /\ current.kind = "ScaleTransform"
    THEN [current EXCEPT
              !.translate = <<@[1] + transform.x * current.scale[1],
                              @[2] + transform.y * current.scale[1]>>]
    ELSE IF transform.op = "Scale" /\ current.kind = "ScaleTransform"
    THEN [current EXCEPT !.scale = <<@[1] * transform.x, @[2] * transform.y>>]
    ELSE IF transform.op = "Rotate"
    THEN [kind |-> "Matrix",
          matrix |-> Transform2D_mul(matrix(current),
                                     Transform2D_rotate_degrees(transform.theta))]
    ELSE IF transform.op = "Transform2D"
    THEN [kind |-> "Matrix",
          matrix |-> Transform2D_mul(matrix(current), transform.matrix)]
    ELSE IF transform.op = "Translate"
    THEN [current EXCEPT
              !.matrix = Transform2D_mul(@, Transform2D_translate(transform.x, transform.y))]
    ELSE [current EXCEPT
              !.matrix = Transform2D_mul(@, Transform2D_scale(transform.x, transform.y))]

\* No entry of the transform is beyond the bound
WithinEntries(current) ==
    \A row \in 1..3 : \A col \in 1..3 :
        /\ matrix(current)[row][col] <= MaxEntry
        /\ matrix(current)[row][col] >= 0 - MaxEntry

\* DrawingState::default
DrawingStateInit ==
    /\ ds_sprite_transform = [kind |-> "ScaleTransform", scale |-> <<1, 1>>, translate |-> <<0, 0>>]
    /\ ds_applied = [op |-> "none"]

DrawingStateIdle == DrawingStateInit

SpriteTransformOp ==
    \E transform \in CanvasSpriteTransforms :
        /\ WithinEntries(sprite_transform(transform, ds_sprite_transform))
        /\ ds_sprite_transform' = sprite_transform(transform, ds_sprite_transform)
        /\ ds_applied' = transform

NextDrawingState ==
    \/ SpriteTransformOp /\ UNCHANGED not_ds

\* ------------------------------------------------------------------------
\* opengl_initialize_offscreen_rendering
\* ------------------------------------------------------------------------

\* The largest file descriptor that open returns
MaxFd == 4

\* open returns -1 when it fails and a file descriptor of 0 or more otherwise
OpenResults == {0 - 1} \cup 0..MaxFd

RequiredExtensions == {"EGL_KHR_create_context ", "EGL_KHR_surfaceless_context "}

EglInitStart ==
    /\ eg_card0 = 0
    /\ eg_gbm = "null"
    /\ eg_extensions = {}
    /\ eg_calls = <<>>
    /\ eg_result = "none"
    /\ eg_pc = "open"

EglInitIdle == EglInitStart

\* Err(error)?
EglErr(error) ==
    /\ eg_result' = error
    /\ eg_pc' = "returned"

\* The statement succeeded and the next one is run
EglNext(pc) ==
    /\ eg_pc' = pc
    /\ UNCHANGED eg_result

\* let card0 = open(card0_file.as_ptr(), O_RDWR)
OpenCard ==
    /\ eg_pc = "open"
    /\ \E card0 \in OpenResults : eg_card0' = card0
    /\ eg_calls' = Append(eg_calls, <<"open">>)
    /\ EglNext("card0")
    /\ UNCHANGED <<eg_gbm, eg_extensions>>

\* if card0 == 0
card0_failed(card0) == card0 = 0

CheckCard ==
    /\ eg_pc = "card0"
    /\ IF card0_failed(eg_card0) THEN EglErr("CannotOpenGraphicsDevice") ELSE EglNext("gbm")
    /\ UNCHANGED <<eg_card0, eg_gbm, eg_extensions, eg_calls>>

\* let gbm = gbm::gbm_create_device(card0); if gbm.is_null() { Err(..)? }
CreateGbmDevice ==
    /\ eg_pc = "gbm"
    /\ eg_calls' = Append(eg_calls, <<"gbm_create_device", eg_card0>>)
    /\ \E gbm \in {"null", "device"} :
           /\ eg_gbm' = gbm
           /\ IF gbm = "null" THEN EglErr("CannotCreateGraphicsDevice") ELSE EglNext("bind_api")
    /\ UNCHANGED <<eg_card0, eg_extensions>>

\* if !egl::bind_api(egl::EGL_OPENGL_API) { Err(..)? }
BindApi ==
    /\ eg_pc = "bind_api"
    /\ eg_calls' = Append(eg_calls, <<"bind_api">>)
    /\ \E bound \in BOOLEAN :
           IF ~bound THEN EglErr("ApiNotAvailable") ELSE EglNext("display")
    /\ UNCHANGED <<eg_card0, eg_gbm, eg_extensions>>

\* eglGetPlatformDisplay(EGL_PLATFORM_GBM_MESA, gbm, null)
GetPlatformDisplay ==
    /\ eg_pc = "display"
    /\ eg_calls' = Append(eg_calls, <<"eglGetPlatformDisplay", eg_card0>>)
    /\ \E is_null \in BOOLEAN :
           IF is_null THEN EglErr("DisplayNotAvailable") ELSE EglNext("initialize")
    /\ UNCHANGED <<eg_card0, eg_gbm, eg_extensions>>

\* egl::initialize(egl_display, &mut major, &mut minor)
Initialize ==
    /\ eg_pc = "initialize"
    /\ eg_calls' = Append(eg_calls, <<"initialize">>)
    /\ \E init_result \in BOOLEAN :
           IF ~init_result THEN EglErr("CannotStartGraphicsDriver") ELSE EglNext("extensions")
    /\ UNCHANGED <<eg_card0, eg_gbm, eg_extensions>>

\* egl::query_string(egl_display, egl::EGL_EXTENSIONS) and the two extensions
QueryExtensions ==
    /\ eg_pc = "extensions"
    /\ eg_calls' = Append(eg_calls, <<"query_string">>)
    /\ \E extensions \in {<<>>} \cup {<<found>> : found \in SUBSET RequiredExtensions} :
           IF extensions = <<>>
           THEN EglErr("MissingRequiredExtension") /\ UNCHANGED eg_extensions
           ELSE /\ eg_extensions' = extensions[1]
                /\ IF "EGL_KHR_create_context " \notin extensions[1]
                   THEN EglErr("MissingRequiredExtension")
                   ELSE IF "EGL_KHR_surfaceless_context " \notin extensions[1]
                   THEN EglErr("MissingRequiredExtension")
                   ELSE EglNext("config")
    /\ UNCHANGED <<eg_card0, eg_gbm>>

\* egl::choose_config(egl_display, ..)
ChooseConfig ==
    /\ eg_pc = "config"
    /\ eg_calls' = Append(eg_calls, <<"choose_config">>)
    /\ \E config \in BOOLEAN :
           IF ~config THEN EglErr("CouldNotConfigureDisplay") ELSE EglNext("context")
    /\ UNCHANGED <<eg_card0, eg_gbm, eg_extensions>>

\* egl::create_context(egl_display, config, egl::EGL_NO_CONTEXT, ..)
CreateContext ==
    /\ eg_pc = "context"
    /\ eg_calls' = Append(eg_calls, <<"create_context">>)
    /\ \E context \in BOOLEAN :
           IF ~context THEN EglErr("CouldNotCreateContext") ELSE EglNext("make_current")
    /\ UNCHANGED <<eg_card0, eg_gbm, eg_extensions>>

\* egl::make_current(egl_display, EGL_NO_SURFACE, EGL_NO_SURFACE, context)
MakeCurrent ==
    /\ eg_pc = "make_current"
    /\ eg_calls' = Append(eg_calls, <<"make_current">>)
    /\ \E activated_context \in BOOLEAN :
           IF ~activated_context THEN EglErr("ContextDidNotStart") ELSE EglNext("gl")
    /\ UNCHANGED <<eg_card0, eg_gbm, eg_extensions>>

\* gl::load_with, gl::GetError and Ok(EglOffscreenRenderContext { .. })
LoadGl ==
    /\ eg_pc = "gl"
    /\ eg_calls' = eg_calls \o << <<"load_with">>, <<"GetError">> >>
    /\ \E no_error \in BOOLEAN :
           IF ~no_error THEN EglErr("ContextDidNotStart") ELSE EglErr("Ok")
    /\ UNCHANGED <<eg_card0, eg_gbm, eg_extensions>>

NextEglInit ==
    \/ OpenCard /\ UNCHANGED not_eg
    \/ CheckCard /\ UNCHANGED not_eg
    \/ CreateGbmDevice /\ UNCHANGED not_eg
    \/ BindApi /\ UNCHANGED not_eg
    \/ GetPlatformDisplay /\ UNCHANGED not_eg
    \/ Initialize /\ UNCHANGED not_eg
    \/ QueryExtensions /\ UNCHANGED not_eg
    \/ ChooseConfig /\ UNCHANGED not_eg
    \/ CreateContext /\ UNCHANGED not_eg
    \/ MakeCurrent /\ UNCHANGED not_eg
    \/ LoadGl /\ UNCHANGED not_eg

\* ------------------------------------------------------------------------
\* Specifications
\* ------------------------------------------------------------------------

InitBuf ==
    /\ BufferStackInit /\ CanvasRendererIdle /\ CanvasDrawingIdle /\ SpritesIdle
    /\ StrokeEdgeIdle /\ EdgePlanIdle /\ FilterIdle /\ FrameRendererIdle /\ ProgramCacheIdle /\ ParPrepareIdle /\ CombinedLineIdle /\ SceneContextIdle /\ FilteredScanlineIdle /\ DrawingStateIdle /\ EglInitIdle

SpecBuf == InitBuf /\ [][NextBuf]_vars

InitCanvas ==
    /\ BufferStackIdle /\ CanvasRendererInit /\ CanvasDrawingIdle /\ SpritesIdle
    /\ StrokeEdgeIdle /\ EdgePlanIdle /\ FilterIdle /\ FrameRendererIdle /\ ProgramCacheIdle /\ ParPrepareIdle /\ CombinedLineIdle /\ SceneContextIdle /\ FilteredScanlineIdle /\ DrawingStateIdle /\ EglInitIdle

SpecCanvas == InitCanvas /\ [][NextCanvas]_vars

InitDraw ==
    /\ BufferStackIdle /\ CanvasRendererIdle /\ CanvasDrawingInit /\ SpritesIdle
    /\ StrokeEdgeIdle /\ EdgePlanIdle /\ FilterIdle /\ FrameRendererIdle /\ ProgramCacheIdle /\ ParPrepareIdle /\ CombinedLineIdle /\ SceneContextIdle /\ FilteredScanlineIdle /\ DrawingStateIdle /\ EglInitIdle

SpecDraw == InitDraw /\ [][NextDraw]_vars

InitSprite ==
    /\ BufferStackIdle /\ CanvasRendererIdle /\ CanvasDrawingIdle /\ SpritesInit
    /\ StrokeEdgeIdle /\ EdgePlanIdle /\ FilterIdle /\ FrameRendererIdle /\ ProgramCacheIdle /\ ParPrepareIdle /\ CombinedLineIdle /\ SceneContextIdle /\ FilteredScanlineIdle /\ DrawingStateIdle /\ EglInitIdle

SpecSprite == InitSprite /\ [][NextSprite]_vars

SpecSpriteSelect == InitSprite /\ [][NextSpriteSelect]_vars

InitStroke ==
    /\ BufferStackIdle /\ CanvasRendererIdle /\ CanvasDrawingIdle /\ SpritesIdle
    /\ StrokeEdgeInit /\ EdgePlanIdle /\ FilterIdle /\ FrameRendererIdle /\ ProgramCacheIdle /\ ParPrepareIdle /\ CombinedLineIdle /\ SceneContextIdle /\ FilteredScanlineIdle /\ DrawingStateIdle /\ EglInitIdle

SpecStroke == InitStroke /\ [][NextStroke]_vars

InitPlan ==
    /\ BufferStackIdle /\ CanvasRendererIdle /\ CanvasDrawingIdle /\ SpritesIdle
    /\ StrokeEdgeIdle /\ EdgePlanInit /\ FilterIdle /\ FrameRendererIdle /\ ProgramCacheIdle /\ ParPrepareIdle /\ CombinedLineIdle /\ SceneContextIdle /\ FilteredScanlineIdle /\ DrawingStateIdle /\ EglInitIdle

SpecPlan == InitPlan /\ [][NextPlan]_vars

InitFilter ==
    /\ BufferStackIdle /\ CanvasRendererIdle /\ CanvasDrawingIdle /\ SpritesIdle
    /\ StrokeEdgeIdle /\ EdgePlanIdle /\ FilterInit /\ FrameRendererIdle /\ ProgramCacheIdle /\ ParPrepareIdle /\ CombinedLineIdle /\ SceneContextIdle /\ FilteredScanlineIdle /\ DrawingStateIdle /\ EglInitIdle

SpecFilter == InitFilter /\ [][NextFilter]_vars

InitFrame ==
    /\ BufferStackIdle /\ CanvasRendererIdle /\ CanvasDrawingIdle /\ SpritesIdle
    /\ StrokeEdgeIdle /\ EdgePlanIdle /\ FilterIdle /\ FrameRendererInit /\ ProgramCacheIdle /\ ParPrepareIdle /\ CombinedLineIdle /\ SceneContextIdle /\ FilteredScanlineIdle /\ DrawingStateIdle /\ EglInitIdle

SpecFrame == InitFrame /\ [][NextFrame]_vars

\* render() is a sequential loop: a call that has started keeps running
SpecFrameFair == SpecFrame /\ WF_vars(NextFrame)

InitProgramCache ==
    /\ BufferStackIdle /\ CanvasRendererIdle /\ CanvasDrawingIdle /\ SpritesIdle
    /\ StrokeEdgeIdle /\ EdgePlanIdle /\ FilterIdle /\ FrameRendererIdle /\ ParPrepareIdle /\ CombinedLineIdle /\ SceneContextIdle /\ FilteredScanlineIdle /\ DrawingStateIdle /\ EglInitIdle
    /\ ProgramCacheInit

SpecProgramCache == InitProgramCache /\ [][NextProgramCache]_vars

InitParPrepare ==
    /\ BufferStackIdle /\ CanvasRendererIdle /\ CanvasDrawingIdle /\ SpritesIdle
    /\ StrokeEdgeIdle /\ EdgePlanIdle /\ FilterIdle /\ FrameRendererIdle /\ CombinedLineIdle /\ SceneContextIdle /\ FilteredScanlineIdle /\ DrawingStateIdle /\ EglInitIdle
    /\ ProgramCacheIdle /\ ParPrepareInit

SpecParPrepare == InitParPrepare /\ [][NextParPrepare]_vars

InitCombinedLine ==
    /\ BufferStackIdle /\ CanvasRendererIdle /\ CanvasDrawingIdle /\ SpritesIdle
    /\ StrokeEdgeIdle /\ EdgePlanIdle /\ FilterIdle /\ FrameRendererIdle /\ ProgramCacheIdle /\ ParPrepareIdle /\ SceneContextIdle /\ FilteredScanlineIdle /\ DrawingStateIdle /\ EglInitIdle
    /\ CombinedLineInit

SpecCombinedLine == InitCombinedLine /\ [][NextCombinedLine]_vars

InitSceneContext ==
    /\ BufferStackIdle /\ CanvasRendererIdle /\ CanvasDrawingIdle /\ SpritesIdle
    /\ StrokeEdgeIdle /\ EdgePlanIdle /\ FilterIdle /\ FrameRendererIdle /\ ProgramCacheIdle /\ ParPrepareIdle /\ FilteredScanlineIdle /\ DrawingStateIdle /\ EglInitIdle
    /\ CombinedLineIdle /\ SceneContextInit

SpecSceneContext == InitSceneContext /\ [][NextSceneContext]_vars

InitFilteredScanline ==
    /\ BufferStackIdle /\ CanvasRendererIdle /\ CanvasDrawingIdle /\ SpritesIdle
    /\ StrokeEdgeIdle /\ EdgePlanIdle /\ FilterIdle /\ FrameRendererIdle /\ ProgramCacheIdle /\ ParPrepareIdle /\ DrawingStateIdle /\ EglInitIdle
    /\ CombinedLineIdle /\ SceneContextIdle /\ FilteredScanlineInit

SpecFilteredScanline == InitFilteredScanline /\ [][NextFilteredScanline]_vars

InitScanlineRender ==
    /\ BufferStackIdle /\ CanvasRendererIdle /\ CanvasDrawingIdle /\ SpritesIdle
    /\ StrokeEdgeIdle /\ EdgePlanIdle /\ FilterIdle /\ FrameRendererIdle /\ ProgramCacheIdle /\ ParPrepareIdle /\ DrawingStateIdle /\ EglInitIdle
    /\ CombinedLineIdle /\ SceneContextIdle /\ ScanlineRenderInit

SpecScanlineRender == InitScanlineRender /\ [][NextFilteredScanline]_vars

InitDrawingState ==
    /\ BufferStackIdle /\ CanvasRendererIdle /\ CanvasDrawingIdle /\ SpritesIdle
    /\ StrokeEdgeIdle /\ EdgePlanIdle /\ FilterIdle /\ FrameRendererIdle /\ ProgramCacheIdle /\ ParPrepareIdle /\ EglInitIdle
    /\ CombinedLineIdle /\ SceneContextIdle /\ FilteredScanlineIdle /\ DrawingStateInit

SpecDrawingState == InitDrawingState /\ [][NextDrawingState]_vars

InitEglInit ==
    /\ BufferStackIdle /\ CanvasRendererIdle /\ CanvasDrawingIdle /\ SpritesIdle
    /\ StrokeEdgeIdle /\ EdgePlanIdle /\ FilterIdle /\ FrameRendererIdle /\ ProgramCacheIdle /\ ParPrepareIdle
    /\ CombinedLineIdle /\ SceneContextIdle /\ FilteredScanlineIdle /\ DrawingStateIdle /\ EglInitStart

SpecEglInit == InitEglInit /\ [][NextEglInit]_vars

\* ------------------------------------------------------------------------
\* Claims
\* ------------------------------------------------------------------------

\* C1: after a balanced sequence of push_entry / pop_entry calls the buffer
\* returned by buffer() equals the buffer before the first push at every index
\* outside the pushed ranges, for blend callbacks that keep the target pixel
\* when the popped pixel is the default pixel.
C1_BalancedOutsideRange ==
    bs_stack = <<>> =>
        \A i \in (1..BufWidth) \ bs_pushed : buffer[i] = bs_base0[i]

\* C2: after any sequence of drawing commands current_layer indexes an existing
\* entry of core.layers; after Layer(id) the layer id exists and is the current
\* layer, and no per-layer command indexes core.layers out of range.
C2_CurrentLayerExists ==
    /\ cr_pc = "cmd" => LayerExists(cr_current_layer)
    /\ (cr_pc = "cmd" /\ cr_cmd = "Layer") =>
           cr_current_layer = cr_layer_id /\ LayerExists(cr_layer_id)
    /\ cr_pc # "panicked"

\* The distance of the layer-creation loop from its exit condition
\* (layer_id > core.layers.len())
LayerLoopDistance ==
    IF LayerLoopCondition THEN Len(cr_layers) - cr_layer_id + 1 ELSE 0

\* C3: processing Layer(id) terminates: every iteration of the layer-creation
\* loop brings the loop closer to its exit condition, so it pushes only
\* finitely many layers.
C3_LayerLoopTerminates ==
    [][(cr_pc = "layer_loop" /\ cr_pc' = "layer_loop")
           => LayerLoopDistance' < LayerLoopDistance]_vars

\* C4: Fill and Stroke take the path under construction as the current path
\* and leave no path under construction; a Fill with a current path publishes
\* one fill job for that path, a Fill with no path publishes no job and adds no
\* render entity; Move/Line/BezierCurve/ClosePath with no path under
\* construction start a new one; NewPath discards the current path.
C4_PathStateMachine ==
    [][/\ cr_cmd' \in {"Fill", "Stroke"} =>
              /\ cr_path_builder' = <<>>
              /\ cr_current_path' = IF cr_path_builder # <<>>
                                    THEN << cr_path_builder[1] >>
                                    ELSE cr_current_path
       /\ cr_cmd' = "Fill" =>
              IF cr_current_path' # <<>>
              THEN /\ Len(cr_jobs') = Len(cr_jobs) + 1
                   /\ cr_jobs'[Len(cr_jobs')].path = cr_current_path'[1]
              ELSE cr_jobs' = cr_jobs /\ cr_layers' = cr_layers
       /\ cr_cmd' \in PathOps =>
              /\ cr_path_builder' # <<>>
              /\ cr_path_builder = <<>> => cr_path_builder' = << << cr_cmd' >> >>
       /\ cr_cmd' = "NewPath" => cr_current_path' = <<>>
      ]_vars

\* C5: when draw processes StartFrame / ShowFrame / ResetFrame it counts the
\* frame nesting (and commits the frame when the count returns to zero): every
\* frame instruction taken from the drawing is processed, so draw is not
\* aborted by it.
C5_FrameInstructionsProcessed ==
    \A k \in 1..cd_pos : cd_drawing[k] \in FrameInstructions => cd_pc # "aborted"

\* C6: sprite_draw and sprite_draw_with_filters with a sprite id that is not
\* defined in the current namespace do not abort, add no shape to any layer,
\* leave every z_index, store no program data and leave the prepared-layer
\* cache as it is.
C6_UndefinedSpriteNoOp ==
    [][(/\ sp_cmd'.op \in {"sprite_draw", "sprite_draw_with_filters"}
        /\ <<sp_namespace, sp_cmd'.id>> \notin DOMAIN sp_sprites)
       => /\ sp_layers' = sp_layers
          /\ sp_program_data' = sp_program_data
          /\ sp_prepared' = sp_prepared
          /\ sp_pc' = "ok"]_vars

\* C6 witness: a filtered draw of an undefined sprite has run while a sprite
\* with shapes is defined in another namespace and prepared layers are cached
C6_Witness ==
    /\ sp_cmd.op = "sprite_draw_with_filters"
    /\ sp_cmd.filtered
    /\ <<sp_namespace, sp_cmd.id>> \notin DOMAIN sp_sprites
    /\ \E key \in DOMAIN sp_sprites :
           key[2] = sp_cmd.id /\ sp_layers[sp_sprites[key]].shapes # <<>>
    /\ DOMAIN sp_prepared # {}
    /\ sp_program_data # <<>>

RECURSIVE OwnIntercepts(_, _)
\* The intercepts of the sub-paths of a prepared path on one scanline
OwnIntercepts(paths, y_pos) ==
    IF paths = <<>> THEN <<>>
    ELSE subpath_intercepts_at(Head(paths), y_pos) \o OwnIntercepts(Tail(paths), y_pos)

Occurrences(list, item) == Cardinality({k \in DOMAIN list : list[k] = item})

\* Two lists hold the same items, each as often
SameItems(a, b) ==
    /\ Len(a) = Len(b)
    /\ \A k \in DOMAIN a : Occurrences(a, a[k]) = Occurrences(b, a[k])

IsSortedByXPos(list) == \A k \in 1..(Len(list) - 1) : list[k].x_pos <= list[k + 1].x_pos

\* C7: after intercepts(ys, out) of a LineStrokeEdge or FlattenedLineStrokeEdge
\* every out[i] holds this edge's intercepts at ys[i] and nothing else, whatever
\* it held before the call and however many sub-paths the edge has.
C7_InterceptsOverwrites ==
    ls_cmd = "intercepts" =>
        /\ Len(ls_output) = Len(ls_y_positions)
        /\ \A idx \in DOMAIN ls_output :
               SameItems(ls_output[idx],
                         OwnIntercepts(ls_edge.bezier_path, ls_y_positions[idx]))

\* The edges that edge_space returns for the y positions of the last call
Candidates == data_in_region(ep_edge_space, ScanlineRegion(ep_y_positions))

RECURSIVE Reported(_, _)
\* The intercepts that the candidates among the first edges of the plan have on
\* a scanline, each tagged with the shape of its edge
Reported(edge_count, y_pos) ==
    IF edge_count = 0 THEN <<>>
    ELSE Reported(edge_count - 1, y_pos) \o
         (IF edge_count \in Candidates
          THEN Tagged(OwnIntercepts(ep_edges[edge_count].edge.bezier_path, y_pos),
                      ep_edges[edge_count].edge.shape_id)
          ELSE <<>>)

\* C8: after intercepts_on_scanlines, whatever the buckets held before, bucket i
\* is sorted ascending by x and holds exactly the intercepts that the edges
\* returned by edge_space for min(ys)..max(ys)+1e-6 have at y_positions[i], each
\* tagged with the shape and direction of its edge: none lost, duplicated or
\* tagged with another edge's shape.
C8_BucketsExact ==
    ep_cmd = "intercepts_on_scanlines" =>
        /\ Len(ep_output) = Len(ep_y_positions)
        /\ \A idx \in DOMAIN ep_output :
               /\ IsSortedByXPos(ep_output[idx])
               /\ SameItems(ep_output[idx], Reported(Len(ep_edges), ep_y_positions[idx]))

\* C8 witness: a call whose buckets held stale intercepts, with a bucket that
\* holds the intercepts of two edges of different shapes, the later edge to the
\* left of the earlier one, while another edge of the plan has no sub-path
C8_Witness ==
    /\ ep_cmd = "intercepts_on_scanlines"
    /\ ep_max_prepared = Len(ep_edges)
    /\ \E idx \in DOMAIN ep_output :
           /\ ep_stale[idx] # <<>>
           /\ Len(ep_output[idx]) >= 4
           /\ \E a, b \in Candidates :
                  /\ a < b
                  /\ ep_edges[a].edge.shape_id # ep_edges[b].edge.shape_id
                  /\ ep_edges[a].edge.bezier_path[1].x > ep_edges[b].edge.bezier_path[1].x
                  /\ ep_edges[a].edge.bezier_path[1].y = ep_y_positions[idx]
                  /\ ep_edges[b].edge.bezier_path[1].y = ep_y_positions[idx]

RECURSIVE Ascending(_)
\* The items of a set of numbers in ascending order
Ascending(S) == IF S = {} THEN <<>> ELSE <<SetMin(S)>> \o Ascending(S \ {SetMin(S)})

\* What intercepts_on_scanlines of a plan returns for the y positions
ScanlineIntercepts(edges, edge_space, y_positions) ==
    intercepts_on_scanlines(edges, y_positions, [idx \in 1..Len(y_positions) |-> <<>>],
        Ascending(data_in_region(edge_space, ScanlineRegion(y_positions))))

\* C9: a call of prepare_to_render that follows another with no add_edge in
\* between calls no edge's prepare_to_render and leaves the edges with their
\* y-bounds, edge_space and max_prepared as they are, so that
\* intercepts_on_scanlines returns the same for all y positions.
C9_PrepareIdempotent ==
    [][(ep_prepare_run >= 1 /\ ep_cmd' = "prepare_to_render")
       => /\ ep_prepare_calls' = ep_prepare_calls
          /\ ep_edges' = ep_edges
          /\ ep_edge_space' = ep_edge_space
          /\ ep_max_prepared' = ep_max_prepared
          /\ \A y_positions \in YPositions :
                 ScanlineIntercepts(ep_edges', ep_edge_space', y_positions)
                     = ScanlineIntercepts(ep_edges, ep_edge_space, y_positions)]_vars

\* C9 witness: prepare_to_render was called twice in a row on a plan of two
\* edges with sub-paths, which have intercepts
C9_Witness ==
    /\ ep_cmd = "prepare_to_render"
    /\ ep_prepare_run = 2
    /\ Len(ep_edges) = 2
    /\ \A idx \in DOMAIN ep_edges :
           ep_edges[idx].edge.bezier_path # <<>> /\ ep_prepare_calls[idx] = 1
    /\ \E y_positions \in YPositions :
           \E idx \in DOMAIN y_positions :
               ScanlineIntercepts(ep_edges, ep_edge_space, y_positions)[idx] # <<>>

\* C10: filter_line of an AlphaBlendFilter, MaskFilter or CombinedFilter assigns
\* every pixel of output_line, for every y_pos and every input that has the
\* lines and columns the filter asks for: no pixel keeps the value it had
\* before the call.
C10_EveryPixelWritten ==
    fl_pc = "done" => \A x \in DOMAIN fl_output_line : fl_output_line[x] # StalePixel

\* C11: a CombinedFilter built from an empty filter list is the identity:
\* input_lines() and extra_columns() are (0, 0) and filter_line copies
\* input_lines[0] to output_line pixel for pixel, for every y_pos.
C11_EmptyCombinedIsIdentity ==
    (fl_filter.type = "CombinedFilter" /\ fl_filter.filters = <<>>) =>
        /\ input_lines(fl_filter) = <<0, 0>>
        /\ extra_columns(fl_filter) = <<0, 0>>
        /\ fl_pc = "done" => fl_output_line = fl_input_lines[1]

\* C11 witness: filter_line of an empty CombinedFilter has run below the first
\* line on a line of the largest width that holds a pixel other than the default
C11_Witness ==
    /\ fl_filter.type = "CombinedFilter"
    /\ fl_filter.filters = <<>>
    /\ fl_pc = "done"
    /\ fl_y_pos > 0
    /\ Len(fl_input_lines[1]) = MaxWidth
    /\ \E x \in DOMAIN fl_input_lines[1] : fl_input_lines[1][x] # DefaultPixel

\* C12: U8FrameRenderer::render hands the region renderer, for every strip,
\* scanline buffers in the default (fully transparent) state, so what a strip
\* shows does not depend on the strips rendered before it.
C12_StripBuffersDefault ==
    fr_handed # <<>> => fr_handed = default_buffer_chunks(fr_width)

\* The y positions and the rendered scanlines recorded so far describe strips of
\* LINES_AT_ONCE consecutive lines starting at line 0, only the last one shorter
C13_Covered ==
    /\ \A k \in DOMAIN fr_calls :
           /\ Len(fr_calls[k]) \in 1..LINES_AT_ONCE
           /\ \A idx \in DOMAIN fr_calls[k] :
                  /\ fr_calls[k][idx] = (k - 1) * LINES_AT_ONCE + idx - 1
                  /\ fr_calls[k][idx] < fr_height
           /\ Len(fr_calls[k]) < LINES_AT_ONCE =>
                  /\ k = Len(fr_calls)
                  /\ fr_calls[k][Len(fr_calls[k])] = fr_height - 1
    /\ fr_pc = "returned" =>
           /\ \A y \in 0..(fr_height - 1) :
                  Cardinality({<<k, idx>> \in (DOMAIN fr_calls) \X (1..LINES_AT_ONCE) :
                                  idx <= Len(fr_calls[k]) /\ fr_calls[k][idx] = y}) = 1
           /\ Len(fr_rendered) = fr_height
           /\ \A y \in 0..(fr_height - 1) : \A x \in 0..(fr_width - 1) :
                  fr_dest[y * fr_width + x + 1] = to_u8_rgba(fr_rendered[y + 1][x + 1])

\* C13: render covers the frame exactly once: for every height the strip loop
\* terminates, the region renderer is called once per strip with consecutive y
\* positions (LINES_AT_ONCE per strip, fewer only in the last), so every line
\* 0..height-1 is rendered exactly once in ascending order, and row y, column x of
\* dest receives to_u8_rgba of the pixel rendered for line y, column x.
C13_CoversFrameOnce ==
    /\ []C13_Covered
    /\ (fr_pc = "start") ~> (fr_pc \in {"returned", "aborted"})

C13_Witness ==
    /\ fr_pc = "returned"
    /\ fr_height > LINES_AT_ONCE /\ fr_height % LINES_AT_ONCE # 0
    /\ fr_width = MaxFrameWidth
    /\ Len(fr_calls) = 2
    /\ fr_dest[1] # fr_dest[2]
    /\ \A i \in 1..(fr_height * fr_width) : fr_dest[i] # fr_dest0[i]

\* C14: render never partially commits: when the call aborts (dest has fewer than
\* height rows, or the region renderer aborts in some strip) no pixel of dest has
\* been modified, and the rows of dest beyond height are never changed.
C14_NoPartialCommit ==
    /\ fr_pc = "aborted" => fr_dest = fr_dest0
    /\ \A i \in DOMAIN fr_dest : i > fr_height * fr_width => fr_dest[i] = fr_dest0[i]

\* The entry of a call log that returned `id`
Returned(log, id) == log[CHOOSE k \in DOMAIN log : log[k].id = id]

\* C15: run_program with a scanline-data id invokes draw_pixels of the program that
\* store_program_data was called with, passing the program data of that
\* store_program_data call and the scanline data computed by the
\* create_scanline_data call that returned the id; every create_scanline_data call
\* runs the program's create_scanline_data exactly once; and what run_program does
\* is fixed by the scanline-data id, whatever program_id and program_data it is given.
C15_RunProgramDispatch ==
    /\ Len(pp_step_calls) = Len(pp_create_log)
    /\ \A k \in DOMAIN pp_create_log :
           LET created == pp_create_log[k]
               stored == Returned(pp_store_log, created.program_data)
           IN  /\ created.step = k
               /\ pp_step_calls[k] =
                      [program |-> stored.program, min_y |-> created.min_y,
                       scanlines |-> created.scanlines, program_data |-> stored.data]
    /\ pp_drawn # <<>> =>
           LET run == pp_run[1]
               created == Returned(pp_create_log, run.scanline_data)
               stored == Returned(pp_store_log, created.program_data)
           IN  pp_drawn[1] =
                   [program |-> stored.program, x_range |-> run.x_range,
                    y_pos |-> run.y_pos, program_data |-> stored.data,
                    scanline_data |-> pp_step_calls[created.step]]

C15_Witness ==
    /\ pp_drawn # <<>>
    /\ Len(pp_scanline_data) = 2
    /\ pp_scanline_data[1].program # pp_scanline_data[2].program
    /\ pp_scanline_data[1].program_data # pp_scanline_data[2].program_data
    /\ pp_run[1].scanline_data = 0
    /\ pp_run[1].program_id # pp_drawn[1].program
    /\ pp_run[1].program_data # pp_create_log[1].program_data

\* C16: PixelProgramDataCache ids are dense and stable: store_program_data returns
\* the number of entries stored before the call (0, 1, 2, ...), create_scanline_data
\* does the same for scanline-data ids, and after any later store_program_data and
\* create_scanline_data calls every id returned earlier still refers to the same
\* program and data.
C16_IdsDenseAndStable ==
    /\ \A k \in DOMAIN pp_store_log :
           LET stored == pp_store_log[k]
           IN  /\ stored.id = stored.before
               /\ stored.id = k - 1
               /\ stored.id < Len(pp_program_data)
               /\ pp_program_data[stored.id + 1] =
                      [program |-> stored.program, program_data |-> stored.data]
    /\ \A k \in DOMAIN pp_create_log :
           LET created == pp_create_log[k]
               stored == pp_store_log[created.program_data + 1]
           IN  /\ created.id = created.before
               /\ created.id = k - 1
               /\ created.id < Len(pp_scanline_data)
               /\ pp_scanline_data[created.id + 1] =
                      [program |-> stored.program, program_data |-> stored.data,
                       scanline_data |-> pp_step_calls[created.step]]

C16_Witness ==
    /\ Len(pp_store_log) = 2 /\ Len(pp_create_log) = 2
    /\ pp_program_data[1] # pp_program_data[2]
    /\ pp_scanline_data[1] # pp_scanline_data[2]
    /\ pp_create_log[1].program_data = 1
    /\ pp_create_log[2].program_data = 0

\* Two different (namespace, sprite id) pairs never share a layer handle
C17_Injective ==
    \A key1, key2 \in DOMAIN sp_sprites :
        sp_sprites[key1] = sp_sprites[key2] => key1 = key2

\* What one operation may do to the sprites map
C17_Selection ==
    /\ \A key \in DOMAIN sp_sprites :
           key \in DOMAIN sp_sprites' /\ sp_sprites'[key] = sp_sprites[key]
    /\ \A key \in DOMAIN sp_sprites' \ DOMAIN sp_sprites :
           /\ key[1] = sp_namespace
           /\ sp_sprites'[key] \notin DOMAIN sp_layers
           /\ sp_sprites'[key] >= sp_next_layer_handle
           /\ sp_sprites'[key] < sp_next_layer_handle'
           /\ sp_sprites'[key] \in DOMAIN sp_layers'
           /\ sp_current_layer' = sp_sprites'[key]
    /\ DOMAIN sp_sprites' = DOMAIN sp_sprites =>
           /\ sp_layers' = sp_layers
           /\ sp_next_layer_handle' = sp_next_layer_handle
    /\ (sp_current_layer' # sp_current_layer /\ sp_current_layer' # 0) =>
           \E key \in DOMAIN sp_sprites' :
               key[1] = sp_namespace /\ sp_sprites'[key] = sp_current_layer'

\* C17: sprite(id) selects the layer mapped from (current namespace, id), creating
\* a layer with a never-before-used handle on first use; over any sequence of
\* sprite selections in any namespaces two different (namespace, sprite id) pairs
\* never share a layer handle, and re-selecting a pair yields the handle it got the
\* first time without creating a layer.
C17_SpritesInjective == []C17_Injective /\ [][C17_Selection]_vars

C17_Witness ==
    /\ <<0, 0>> \in DOMAIN sp_sprites /\ <<1, 0>> \in DOMAIN sp_sprites
    /\ <<0, 1>> \in DOMAIN sp_sprites
    /\ sp_sprites[<<0, 0>>] # sp_sprites[<<1, 0>>]
    /\ sp_next_layer_handle = 4
    /\ sp_namespace = 1
    /\ sp_current_layer = sp_sprites[<<1, 0>>]
    /\ sp_current_layer < 3

\* The shapes of every layer have strictly increasing z-indices in the order in
\* which they were added
C18_Increasing ==
    \A h \in DOMAIN sp_layers :
        \A i, j \in DOMAIN sp_layers[h].shapes :
            i < j => sp_layers[h].shapes[i].z_index < sp_layers[h].shapes[j].z_index

\* What one operation may do to the z_index counters and the shapes
C18_Draw ==
    /\ \A h \in DOMAIN sp_layers :
           h \in DOMAIN sp_layers' /\ sp_layers'[h].z_index >= sp_layers[h].z_index
    /\ sp_cmd'.op \in {"sprite_draw", "sprite_draw_with_filters"} =>
           /\ \A h \in DOMAIN sp_layers :
                  IF Len(sp_layers'[h].shapes) > Len(sp_layers[h].shapes)
                  THEN /\ h = sp_current_layer
                       /\ Len(sp_layers'[h].shapes) = Len(sp_layers[h].shapes) + 1
                       /\ Front(sp_layers'[h].shapes) = sp_layers[h].shapes
                       /\ Last(sp_layers'[h].shapes).z_index = sp_layers[h].z_index
                       /\ sp_layers'[h].z_index = sp_layers[h].z_index + 1
                  ELSE sp_layers'[h] = sp_layers[h]
           /\ (/\ <<sp_namespace, sp_cmd'.id>> \in DOMAIN sp_sprites
               /\ sp_layers[sp_sprites[<<sp_namespace, sp_cmd'.id>>]].shapes = <<>>)
              => sp_layers' = sp_layers

\* C18: each sprite_draw / sprite_draw_with_filters that emits a shape into a layer
\* gives the shape the current value of the layer's z_index counter and then
\* increments the counter, so shapes emitted by successive sprite draws into the
\* same layer have strictly increasing z-indices in command order and a layer's
\* counter never decreases; a sprite with an empty edge plan emits no shape and
\* leaves the counter unchanged.
C18_ZIndexIncreases == []C18_Increasing /\ [][C18_Draw]_vars

C18_Witness ==
    /\ sp_cmd.op = "sprite_draw_with_filters" /\ sp_cmd.filtered
    /\ sp_current_layer = 0
    /\ Len(sp_layers[0].shapes) = 2
    /\ sp_layers[0].shapes[1].program \in {"basic_sprite", "transformed_sprite"}
    /\ sp_layers[0].shapes[2].program = "filtered_sprite"
    /\ sp_layers[0].shapes[1].z_index = 0
    /\ sp_layers[0].shapes[2].z_index = 1
    /\ sp_layers[0].z_index = 2

\* What a step that pushes an entry does
C19_Push ==
    Len(bs_stack') = Len(bs_stack) + 1 =>
        LET previous == IF bs_stack # <<>> THEN bs_stack[Len(bs_stack)] ELSE bs_first
            range == bs_ranges'[Len(bs_ranges')]
            new_entry == bs_stack'[Len(bs_stack')]
        IN  /\ \A i \in 1..BufWidth :
                   (range[1] < i /\ i <= range[2]) => new_entry[i] = previous[i]
            /\ bs_first' = bs_first
            /\ \A k \in DOMAIN bs_stack : bs_stack'[k] = bs_stack[k]
            /\ buffer' = new_entry

\* C19: push_entry(range) makes a new top entry whose pixels at every index in
\* range equal those of the previous top (of the base buffer when nothing is
\* pushed), whether the entry is freshly allocated or re-used from an earlier pop,
\* and leaves the base buffer and every lower entry unchanged; buffer() then
\* returns the new entry.
C19_PushCopiesRange == [][C19_Push]_vars

C19_Witness ==
    /\ Len(bs_stack) = 2
    /\ bs_ranges[2] = <<0, 1>>
    /\ bs_stack[2][2] # DefaultPixel
    /\ bs_stack[2][1] = bs_stack[1][1]
    /\ bs_stack[1][1] # bs_first[1]
    /\ bs_stack[1][2] # bs_stack[2][2]
    /\ bs_ready = <<>>

\* C20: with the multithreading feature prepare_to_render prepares the unprepared
\* edges in parallel; for every interleaving of the per-edge preparations the
\* y-bounds of every edge, edge_space and max_prepared are the same as those the
\* sequential version produces on the same plan.
C20_ParallelAsSequential ==
    mp_pc = "returned" =>
        /\ mp_max_prepared = Len(mp_edges0)
        /\ IF mp_max_prepared0 # Len(mp_edges0)
           THEN /\ mp_edges = PrepareEdges(mp_edges0, mp_max_prepared0)
                /\ mp_edge_space =
                       space_from_data(PrepareEdges(mp_edges0, mp_max_prepared0))
           ELSE /\ mp_edges = mp_edges0
                /\ mp_edge_space = mp_edge_space0

C20_Witness ==
    /\ mp_pc = "returned"
    /\ mp_max_prepared0 = 0
    /\ Len(mp_edges) = MaxEdges
    /\ \A idx \in DOMAIN mp_edges : mp_edges[idx].y_bounds # mp_edges0[idx].y_bounds
    /\ mp_edges[1].y_bounds # mp_edges[2].y_bounds
    /\ mp_edge_space # mp_edge_space0

\* Every edge that a prepare_to_render has reached was prepared once, the edges
\* added since were not prepared yet, and after a prepare_to_render max_prepared
\* is edges.len() and edge_space has one entry for every edge index, with the
\* y-range of that edge's bounding box
C21_PreparedOnce ==
    /\ Len(ep_prepare_calls) = Len(ep_edges)
    /\ \A idx \in DOMAIN ep_edges :
           ep_prepare_calls[idx] = IF idx <= ep_max_prepared THEN 1 ELSE 0
    /\ ep_cmd = "prepare_to_render" =>
           /\ ep_max_prepared = Len(ep_edges)
           /\ \A idx \in DOMAIN ep_edges :
                  Cardinality({k \in DOMAIN ep_edge_space : ep_edge_space[k].data = idx}) = 1
           /\ \A k \in DOMAIN ep_edge_space :
                  /\ ep_edge_space[k].data \in DOMAIN ep_edges
                  /\ ep_edge_space[k].range =
                         <<bounding_box(ep_edges[ep_edge_space[k].data].edge)[1][2],
                           bounding_box(ep_edges[ep_edge_space[k].data].edge)[2][2]>>

\* max_prepared and the number of times an edge was prepared never decrease
C21_Monotone ==
    /\ ep_max_prepared' >= ep_max_prepared
    /\ \A idx \in DOMAIN ep_prepare_calls : ep_prepare_calls'[idx] >= ep_prepare_calls[idx]

\* C21: over any interleaving of add_edge and EdgePlan::prepare_to_render calls
\* each edge's own prepare_to_render is invoked exactly once, by the first
\* EdgePlan::prepare_to_render that follows its addition; max_prepared never
\* decreases, equals edges.len() after every prepare_to_render, and edge_space
\* then holds exactly one entry per edge index, keyed by that edge's bounding-box
\* y-range.
C21_EdgesPreparedOnce == []C21_PreparedOnce /\ [][C21_Monotone]_vars

C21_Witness ==
    /\ ep_cmd = "prepare_to_render"
    /\ ep_prepare_run = 2
    /\ Len(ep_edges) = MaxEdges
    /\ ep_max_prepared = MaxEdges
    /\ ep_edges[1].edge.bezier_path # <<>>
    /\ ep_edges[2].edge.bezier_path = <<>>
    /\ ep_edges[1].y_bounds # ep_edges[2].y_bounds
    /\ ep_edge_space[1].range # ep_edge_space[2].range


\* The CombinedFilter of the filters from..to of the chain
C22_Chain(from, to) == [type |-> "CombinedFilter", filters |-> SubSeq(cf_filters, from, to)]

C22_Lines(from, to) == input_lines(C22_Chain(from, to))[1] + input_lines(C22_Chain(from, to))[2]

C22_Columns(from, to) == extra_columns(C22_Chain(from, to))[1] + extra_columns(C22_Chain(from, to))[2]

\* C22: CombinedFilter.filter_line with k >= 2 filters, given
\* 1 + sum(top_i + bottom_i) input lines of width w + sum(left_i + right_i) and
\* an output line of width w: no buffer is indexed out of range, filter i is
\* given exactly 1 + top_i + bottom_i input lines for each line it produces, the
\* intermediate result after filter i is smaller than its input by filter i's
\* extra columns and input lines, and the last filter receives exactly
\* 1 + top_k + bottom_k lines of width w + left_k + right_k.
C22_ChainBuffersFit ==
    LET k == Len(cf_filters)
    IN  /\ ~cf_panicked
        /\ \A c \in DOMAIN cf_calls :
               LET call == cf_calls[c]
                   i    == call.filter
               IN  /\ Len(call.input) = 1 + C22_Lines(i, i)
                   /\ \A line \in DOMAIN call.input :
                          call.input[line] = cf_output_line + C22_Columns(i, k)
                   /\ call.output = cf_output_line + C22_Columns(i + 1, k)
        /\ \A i \in 1..cf_done :
               Cardinality({c \in DOMAIN cf_calls : cf_calls[c].filter = i})
                   = 1 + C22_Lines(i + 1, k)
        /\ (k >= 2 /\ cf_pc # "ready") =>
               LET next == IF cf_done < k THEN cf_done + 1 ELSE k
               IN  /\ cf_width = cf_output_line + C22_Columns(next, k)
                   /\ cf_height = 1 + C22_Lines(next, k)
                   /\ cf_next_input = new_buffer(cf_height, cf_width)
        /\ (k >= 2 /\ cf_pc = "done") =>
               /\ cf_done = k
               /\ cf_calls[Len(cf_calls)].filter = k
               /\ cf_calls[Len(cf_calls)].input =
                      new_buffer(1 + C22_Lines(k, k), cf_output_line + C22_Columns(k, k))
               /\ cf_calls[Len(cf_calls)].output = cf_output_line

\* C22 witness: a chain of a vertical, a horizontal and a vertical kernel has
\* run: three lines from each of the first two filters and the output line
C22_Witness ==
    /\ cf_pc = "done"
    /\ Len(cf_filters) = 3
    /\ cf_filters[1].type = "VerticalKernelFilter"
    /\ cf_filters[2].type = "HorizontalKernelFilter"
    /\ cf_filters[3].type = "VerticalKernelFilter"
    /\ cf_output_line = MaxWidth
    /\ Len(cf_calls) = 7
    /\ cf_calls[7].filter = 3
    /\ Len(cf_calls[7].input) = 3
    /\ cf_output[1] > cf_width


\* What C23 asks of one step of the command loop
C23_FillStep ==
    /\ (cr_pc = "cmd" /\ cr_cmd' = "Fill" /\ cr_current_path' # <<>>) =>
           /\ LayerExists(cr_current_layer)
           /\ Len(cr_jobs') = Len(cr_jobs) + 1
           /\ LET layer_id == cr_current_layer
                  job      == cr_jobs'[Len(cr_jobs')]
              IN  /\ cr_layers'[layer_id + 1].render_order =
                         Append(cr_layers[layer_id + 1].render_order, "Tessellating")
                  /\ \A other \in DOMAIN cr_layers :
                         other # layer_id + 1 => cr_layers'[other] = cr_layers[other]
                  /\ job.layer_id = layer_id
                  /\ job.entity_index = Len(cr_layers'[layer_id + 1].render_order) - 1
                  /\ job.color = cr_layers[layer_id + 1].fill_color
    /\ Len(cr_jobs') >= Len(cr_jobs)
    /\ SubSeq(cr_jobs', 1, Len(cr_jobs)) = cr_jobs

\* C23: each Fill processed while a current path exists appends exactly one
\* Tessellating entity to the current layer's render_order and publishes exactly
\* one Fill job, whose entity reference is (current layer, index of the entity
\* just appended) and whose colour is the current layer's fill colour at the
\* moment the Fill is processed (later FillColor commands do not change it);
\* jobs are published in the order of the Fill commands.
C23_FillPublishesJob == [][C23_FillStep]_vars

\* The same for the steps whose current layer exists
C23_FillPublishesJobInRange == [][LayerExists(cr_current_layer) => C23_FillStep]_vars


\* C24: flo_draw_scene_context is a singleton under concurrency: over any
\* interleaving of calls from several threads exactly one Scene is created, its
\* run task is sent to the glutin thread exactly once, and every call returns
\* the same scene context.
C24_SceneContextSingleton ==
    /\ sc_scenes <= 1
    /\ Len(sc_sent) <= 1
    /\ \A thread \in Threads :
           /\ sc_pc[thread] \in {"store", "unwrap"} => (sc_scenes = 1 /\ sc_sent = <<1>>)
           /\ \A call \in DOMAIN sc_returned[thread] :
                  /\ sc_scenes = 1
                  /\ sc_sent = <<1>>
                  /\ sc_returned[thread][call] = 1
                  /\ sc_context = <<1>>

\* C24 witness: each of two threads has had the context returned once, and now
\* thread 1 waits for the lock while thread 2 is about to return from its
\* second call
C24_Witness ==
    /\ sc_pc[1] = "lock"
    /\ sc_pc[2] = "unwrap"
    /\ sc_mutex = 2
    /\ Len(sc_returned[1]) = 1
    /\ Len(sc_returned[2]) = 1
    /\ sc_scenes = 1


\* C25: FilteredScanlineProgram.draw_pixels: over any sequence of calls on the
\* same FilteredScanlineData, including calls with different x-transforms or
\* widths, the scanline plan used for a y position equals the plan the planner
\* would produce for the x-transform and x-range of the current call (a plan
\* cached by an earlier call is re-used only when it is that plan).
C25_PlanOfCurrentCall ==
    \A thread \in RenderThreads :
        \A idx \in DOMAIN fs_render_scanlines[thread] :
            fs_render_scanlines[thread][idx].plan =
                new_scanline(fs_filter, fs_x_transform[thread],
                             fs_render_scanlines[thread][idx].pixel_ypos)

\* A thread can take its next step
C26_CanStep(thread) ==
    /\ fs_pc[thread] # "idle"
    /\ fs_pc[thread] = "read" => read_free(fs_writer)
    /\ fs_pc[thread] = "write" => write_free(fs_readers, fs_writer)

C27_JobEntitiesExist ==
    /\ \A j \in DOMAIN cr_jobs :
           /\ LayerExists(cr_jobs[j].layer_id)
           /\ cr_jobs[j].entity_index < Len(cr_layers[cr_jobs[j].layer_id + 1].render_order)
           /\ cr_layers[cr_jobs[j].layer_id + 1].render_order[cr_jobs[j].entity_index + 1]
                  = "Tessellating"
    /\ \A j1, j2 \in DOMAIN cr_jobs :
           (/\ cr_jobs[j1].layer_id = cr_jobs[j2].layer_id
            /\ cr_jobs[j1].entity_index = cr_jobs[j2].entity_index) => j1 = j2


\* The matrix of a Translate or a Scale
C28_Matrix(transform) ==
    IF transform.op = "Translate"
    THEN Transform2D_translate(transform.x, transform.y)
    ELSE Transform2D_scale(transform.x, transform.y)

\* C28: DrawingState.sprite_transform keeps its two representations
\* equivalent: for every ScaleTransform {scale, translate} and every
\* Translate(x, y) or Scale(x, y), the matrix() of the updated ScaleTransform
\* equals matrix() of the old one multiplied by the translate / scale matrix,
\* which is what the same operation yields on the Matrix representation.
C28_RepresentationsAgree ==
    [][(/\ ds_applied' \in CanvasSpriteTransforms
        /\ ds_applied'.op \in {"Translate", "Scale"}
        /\ ds_sprite_transform.kind = "ScaleTransform") =>
           /\ matrix(ds_sprite_transform') =
                  Transform2D_mul(matrix(ds_sprite_transform), C28_Matrix(ds_applied'))
           /\ matrix(ds_sprite_transform') =
                  matrix(sprite_transform(ds_applied',
                             [kind |-> "Matrix", matrix |-> matrix(ds_sprite_transform)]))
      ]_vars


\* The lines that the filters after filter idx of the chain read above a line
C29_LinesAbove(idx) ==
    input_lines([type |-> "CombinedFilter",
                 filters |-> SubSeq(cf_filters, idx + 1, Len(cf_filters))])[1]

\* C29: CombinedFilter.filter_line with two or more filters invokes every
\* component filter, for each line it produces, with the y position of that
\* line in the frame (the y_pos of the final output line offset by the line's
\* distance above or below it), so a position-dependent filter such as
\* MaskFilter samples the same row in a chain as it does when applied alone.
C29_FiltersGivenFrameY ==
    \A c \in DOMAIN cf_calls :
        cf_calls[c].y_pos = cf_y_pos - C29_LinesAbove(cf_calls[c].filter) + cf_calls[c].line


\* C30: opengl_initialize_offscreen_rendering returns
\* Err(CannotOpenGraphicsDevice) whenever opening the /dev/dri/card device
\* fails (open returns -1), and in that case does not go on to create a GBM
\* device or an EGL display from the invalid descriptor.
C30_OpenFailureReported ==
    (eg_pc # "open" /\ eg_card0 = 0 - 1) =>
        /\ eg_pc \in {"card0", "returned"}
        /\ eg_pc = "returned" => eg_result = "CannotOpenGraphicsDevice"
        /\ \A c \in DOMAIN eg_calls :
               eg_calls[c][1] \notin {"gbm_create_device", "eglGetPlatformDisplay"}

====
